---------------------------- MODULE Spec2Model ----------------------------
(***************************************************************************)
(* A model of the Mode S / ADS-B receiver Dump1090 (Windows port).         *)
(*                                                                         *)
(* The program is modelled as four state machines that share one list of   *)
(* variables, one per part of the pipeline:                                *)
(*                                                                         *)
(*   SpecRx     the sample producer (rx_callback) and the consumer         *)
(*              (main_data_loop, compute_magnitude_vector, the scan loop   *)
(*              of detect_modeS) around the shared raw buffer.             *)
(*   SpecDec    decode_modeS_message with the CRC engine and the cache of  *)
(*              recently seen ICAO addresses.                              *)
(*   SpecTrack  modeS_user_message and the aircraft tracker in interactive *)
(*              mode (interactive_receive_data, decode_CPR) with the       *)
(*              periodic background pass.                                  *)
(*   SpecNet    modeS_user_message with the network services: the clients  *)
(*              that connect and the fan-out to them.                      *)
(***************************************************************************)
EXTENDS Integers, Sequences, FiniteSets, TLC

(***************************************************************************)
(* Bounds of the model.                                                    *)
(***************************************************************************)

\* Samples (I/Q pairs) the device delivers per callback: MODES_DATA_LEN/2.
DataSamples == 4

\* Preamble plus long message, in microseconds (120 in the program).
FullLen == 2

\* Number of callbacks the producer makes.
MaxBatches == 3

\* Number of messages handed to modeS_user_message.
MaxMessages == 4

\* Number of times the tick-time is read with a new value.
MaxTicks == 3

\* Number of clients a network service accepts.
MaxAccepted == 1

\* The connect timeout, in polls of the network, and the number of polls.
TimeoutPolls == 3
MaxPolls == 4

\* Number of calls of fix_single_bit_errors on one buffer.
MaxCalls == 2

\* Number of extended squitter frames that are demodulated.
MaxFrames == 2

\* Messages handed to the tracker in the run of all-call and altitude replies.
MaxReplies == 3

\* The number of start indexes detect_modeS scans in one buffer.
ScanStarts == 135

\* The longest input file, in I/Q pairs, and the largest N of --loop N.
MaxFileLen == 9
MaxLoops == 2

\* Records the peer writes on a raw-input connection, and the number of
\* bytes of a read that ends within a record.
MaxRecords == 3
SplitAt == 10

(***************************************************************************)
(* Part 1.  The shared raw buffer: rx_callback and main_data_loop.         *)
(*                                                                         *)
(* A cell of Modes.data stands for one I/Q pair (two bytes) and holds the  *)
(* position of that pair in the continuous sample stream, Pad for the      *)
(* "no signal" fill of modeS_init.  compute_magnitude_vector maps pair i   *)
(* to magnitude i, so a magnitude cell carries the same stream position.   *)
(***************************************************************************)

VARIABLES
  data,          \* Modes.data, in I/Q pairs
  data_ready,    \* Modes.data_ready
  data_mutex,    \* owner of Modes.data_mutex: "none", "rx" or "main"
  Modes_exit,    \* Modes.exit
  max_messages,  \* Modes.max_messages
  rx_pc,         \* position of the producer thread inside rx_callback
  batches,       \* callbacks that stored their buffer so far
  main_pc,       \* position of the main thread inside main_data_loop
  magnitude,     \* Modes.magnitude
  mag_i,         \* loop index of compute_magnitude_vector (in pairs)
  scan_j,        \* loop index j of detect_modeS
  scans,         \* stream position -> number of times it was a scan start
  demodulated    \* batches whose complete buffer a finished scan held

rxVars == <<data, data_ready, data_mutex, Modes_exit, max_messages, rx_pc,
            batches, main_pc, magnitude, mag_i, scan_j, scans, demodulated>>

(***************************************************************************)
(* State of the decoder and of the ICAO address cache (Part 2).            *)
(***************************************************************************)
VARIABLES
  ICAO_cache,    \* Modes.ICAO_cache: slot -> [addr, seen]
  now,           \* time(NULL), in seconds
  aggressive,    \* Modes.aggressive
  mm,            \* the modeS_message filled by the last decode_modeS_message
  added_at,      \* address -> time of its last ICAO_cache_add_address
  live           \* addresses added and not overwritten by a later add

decVars == <<ICAO_cache, now, aggressive, mm, added_at, live>>

(***************************************************************************)
(* State of the tracker and of the network fan-out (Part 3).               *)
(***************************************************************************)
VARIABLES
  aircrafts,       \* Modes.aircrafts: the list of aircraft records
  msec,            \* MSEC_TIME(): the tick-time in milliseconds
  last_update_ms,  \* Modes.last_update_ms
  interactive,     \* Modes.interactive
  net,             \* Modes.net
  home_pos_ok,     \* Modes.home_pos_ok
  connections,     \* service -> number of entries of Modes.connections[service]
  cli_accepted,    \* service -> Modes.stat.cli_accepted[service]
  messages_total,  \* Modes.stat.messages_total
  sent             \* what the last modeS_user_message gave to mg_send

trkVars == <<aircrafts, msec, last_update_ms, interactive, net, home_pos_ok,
             connections, cli_accepted, messages_total, sent>>

(***************************************************************************)
(* State of the active (outbound) connections of --net-active (Part 4).    *)
(***************************************************************************)
VARIABLES
  host,            \* service -> modeS_net_services[service].host is set
  active_conn,     \* service -> state of the connection made by mg_connect
  num_connections, \* service -> modeS_net_services[service].num_connections
  timers,          \* Modes.mgr.timers: the timers that are armed
  mg_ms,           \* the time of the last mg_mgr_poll, in milliseconds
  last_err         \* service -> modeS_net_services[service].last_err

conVars == <<host, active_conn, num_connections, timers, mg_ms, last_err>>

(***************************************************************************)
(* State of one frame on its way through the error correction (Part 5).    *)
(***************************************************************************)
VARIABLES
  fx_frame,      \* the frame as it was transmitted
  fx_flips,      \* the bits of it that the channel flipped
  fx_msg,        \* the message buffer the functions work on
  fx_rets,       \* what the calls of fix_single_bit_errors returned, in order
  fx_written,    \* the computed checksum was written into the buffer
  stat           \* the counters of Modes.stat that detect_modeS updates

fixVars == <<fx_frame, fx_flips, fx_msg, fx_rets, fx_written, stat>>

(***************************************************************************)
(* State of one run of main() (Part 7).                                    *)
(***************************************************************************)
VARIABLES
  run_pc,        \* where main() is
  source,        \* the input the command line selects
  dev_opened,    \* main: dev_opened
  net_opened,    \* main: net_opened
  ended_by,      \* why the run ended: "normal", "config" or "device"
  exit_code      \* the exit code of the process, -1 while it runs

runVars == <<run_pc, source, dev_opened, net_opened, ended_by, exit_code>>

(***************************************************************************)
(* State of the scan loop of detect_modeS over one buffer (Part 8); the    *)
(* buffer is magnitude and the index j is scan_j.                          *)
(***************************************************************************)
VARIABLES
  use_correction   \* detect_modeS: use_correction

scanVars == <<use_correction>>

(***************************************************************************)
(* State of the input from a file (Part 9) and of the raw input from the   *)
(* network (Part 10).                                                      *)
(***************************************************************************)
VARIABLES
  file_pc,       \* where read_from_data_file is
  file_len,      \* length of the input file, in I/Q pairs
  file_pos,      \* offset of Modes.fd, in I/Q pairs
  loops,         \* Modes.loops
  loop_arg,      \* the N of --loop N, 0 without the option
  is_stdin,      \* Modes.fd == STDIN_FILENO
  file_read,     \* position in the file -> times it was read into a buffer
  wire,          \* bytes the peer wrote that were not received yet
  recv,          \* conn->conn->recv of the raw-input connection
  sent_log,      \* the records the peer wrote, in their order
  raw_log,       \* the messages handed to decode_modeS_message
  split,         \* a read delivered a part of a record only
  raw_stat       \* Modes.stat: good_raw, unrecognized_raw, empty_raw

inVars == <<file_pc, file_len, file_pos, loops, loop_arg, is_stdin, file_read,
            wire, recv, sent_log, raw_log, split, raw_stat>>

vars == <<rxVars, decVars, trkVars, conVars, fixVars, runVars, scanVars, inVars>>

Pad == -1

\* MODES_DATA_LEN, in I/Q pairs.
MODES_DATA_LEN == DataSamples

\* The carried-over tail 4*(MODES_FULL_LEN-1) bytes, in I/Q pairs.
TailLen == 2 * (FullLen - 1)

\* Modes.data_len = MODES_DATA_LEN + 4*(MODES_FULL_LEN-1), in I/Q pairs;
\* this is also the mlen = Modes.data_len/2 handed to detect_modeS.
data_len == MODES_DATA_LEN + TailLen

\* Exclusive upper limit of j in detect_modeS: mlen - 2*MODES_FULL_LEN.
ScanLimit == data_len - 2 * FullLen

StreamLen == MaxBatches * DataSamples

\* The samples of callback number b (0-based).
NewSamples(b) == [i \in 1..MODES_DATA_LEN |-> b * DataSamples + (i - 1)]

\* What Modes.data holds when callbacks 0..b were each stored in turn.
BufferOf(b) ==
  [i \in 1..data_len |->
     LET s == b * DataSamples - TailLen + (i - 1) IN IF s < 0 THEN Pad ELSE s]

InitRx ==
  /\ data = [i \in 1..data_len |-> Pad]
  /\ data_ready = FALSE
  /\ data_mutex = "none"
  /\ Modes_exit = FALSE
  /\ max_messages \in {0, 2}
  /\ rx_pc = "idle"
  /\ batches = 0
  /\ main_pc = "loop"
  /\ magnitude = [i \in 1..data_len |-> Pad]
  /\ mag_i = 0
  /\ scan_j = 0
  /\ scans = [s \in 0..(StreamLen - 1) |-> 0]
  /\ demodulated = {}

(* rx_callback: "if (exit) return;" *)
RxCall ==
  /\ rx_pc = "idle"
  /\ batches < MaxBatches
  /\ rx_pc' = IF Modes_exit THEN "idle" ELSE "enter"
  /\ UNCHANGED <<decVars, trkVars, conVars, fixVars, runVars, scanVars, inVars>>
  /\ UNCHANGED <<data, data_ready, data_mutex, Modes_exit, max_messages,
                 batches, main_pc, magnitude, mag_i, scan_j, scans, demodulated>>

(* rx_callback: EnterCriticalSection (&Modes.data_mutex) *)
RxEnter ==
  /\ rx_pc = "enter"
  /\ data_mutex = "none"
  /\ data_mutex' = "rx"
  /\ rx_pc' = "tail"
  /\ UNCHANGED <<decVars, trkVars, conVars, fixVars, runVars, scanVars, inVars>>
  /\ UNCHANGED <<data, data_ready, Modes_exit, max_messages, batches,
                 main_pc, magnitude, mag_i, scan_j, scans, demodulated>>

\* memcpy (Modes.data, Modes.data + MODES_DATA_LEN, 4*(MODES_FULL_LEN-1))
CopyTail(d) ==
  [i \in 1..data_len |-> IF i <= TailLen THEN d[MODES_DATA_LEN + i] ELSE d[i]]

\* memcpy (Modes.data + 4*(MODES_FULL_LEN-1), buf, len)
CopyNew(d, buf) ==
  [i \in 1..data_len |->
     IF i > TailLen /\ i - TailLen <= Len(buf) THEN buf[i - TailLen] ELSE d[i]]

RxCopyTail ==
  /\ rx_pc = "tail"
  /\ data' = CopyTail(data)
  /\ rx_pc' = "new"
  /\ UNCHANGED <<decVars, trkVars, conVars, fixVars, runVars, scanVars, inVars>>
  /\ UNCHANGED <<data_ready, data_mutex, Modes_exit, max_messages, batches,
                 main_pc, magnitude, mag_i, scan_j, scans, demodulated>>

RxCopyNew ==
  /\ rx_pc = "new"
  /\ data' = CopyNew(data, NewSamples(batches))
  /\ batches' = batches + 1
  /\ rx_pc' = "ready"
  /\ UNCHANGED <<decVars, trkVars, conVars, fixVars, runVars, scanVars, inVars>>
  /\ UNCHANGED <<data_ready, data_mutex, Modes_exit, max_messages,
                 main_pc, magnitude, mag_i, scan_j, scans, demodulated>>

RxSetReady ==
  /\ rx_pc = "ready"
  /\ data_ready' = TRUE
  /\ rx_pc' = "leave"
  /\ UNCHANGED <<decVars, trkVars, conVars, fixVars, runVars, scanVars, inVars>>
  /\ UNCHANGED <<data, data_mutex, Modes_exit, max_messages, batches,
                 main_pc, magnitude, mag_i, scan_j, scans, demodulated>>

RxLeave ==
  /\ rx_pc = "leave"
  /\ data_mutex' = "none"
  /\ rx_pc' = "idle"
  /\ UNCHANGED <<decVars, trkVars, conVars, fixVars, runVars, scanVars, inVars>>
  /\ UNCHANGED <<data, data_ready, Modes_exit, max_messages, batches,
                 main_pc, magnitude, mag_i, scan_j, scans, demodulated>>

\* A loop head that does not test the flag: the loop goes on after the
\* shutdown flag was set.
MainLoop_IgnoreExit ==
  /\ main_pc = "loop"
  /\ main_pc' = "test"
  /\ UNCHANGED <<decVars, trkVars, conVars, fixVars, runVars, scanVars, inVars>>
  /\ UNCHANGED <<data, data_ready, data_mutex, Modes_exit, max_messages,
                 rx_pc, batches, magnitude, mag_i, scan_j, scans, demodulated>>

(* main_data_loop: "while (!Modes.exit)" followed by background_tasks(),   *)
(* whose effects on this part of the state are none.                       *)
MainLoop ==
  /\ main_pc = "loop"
  /\ main_pc' = IF Modes_exit THEN "done" ELSE "test"
  /\ UNCHANGED <<decVars, trkVars, conVars, fixVars, runVars, scanVars, inVars>>
  /\ UNCHANGED <<data, data_ready, data_mutex, Modes_exit, max_messages,
                 rx_pc, batches, magnitude, mag_i, scan_j, scans, demodulated>>

(* "if (!Modes.data_ready) continue;" read without the mutex *)
MainTest ==
  /\ main_pc = "test"
  /\ main_pc' = IF data_ready THEN "mag" ELSE "loop"
  /\ mag_i' = 0
  /\ UNCHANGED <<decVars, trkVars, conVars, fixVars, runVars, scanVars, inVars>>
  /\ UNCHANGED <<data, data_ready, data_mutex, Modes_exit, max_messages,
                 rx_pc, batches, magnitude, scan_j, scans, demodulated>>

(* compute_magnitude_vector (Modes.data): one I/Q pair per step, read      *)
(* without the mutex.                                                      *)
MainMagnitude ==
  /\ main_pc = "mag"
  /\ IF mag_i < data_len
       THEN /\ magnitude' = [magnitude EXCEPT ![mag_i + 1] = data[mag_i + 1]]
            /\ mag_i' = mag_i + 1
            /\ main_pc' = "mag"
       ELSE /\ main_pc' = "reset"
            /\ UNCHANGED <<magnitude, mag_i>>
  /\ UNCHANGED <<decVars, trkVars, conVars, fixVars, runVars, scanVars, inVars>>
  /\ UNCHANGED <<data, data_ready, data_mutex, Modes_exit, max_messages,
                 rx_pc, batches, scan_j, scans, demodulated>>

(* "Modes.data_ready = false;" written without the mutex *)
MainReset ==
  /\ main_pc = "reset"
  /\ data_ready' = FALSE
  /\ main_pc' = "enter"
  /\ UNCHANGED <<decVars, trkVars, conVars, fixVars, runVars, scanVars, inVars>>
  /\ UNCHANGED <<data, data_mutex, Modes_exit, max_messages, rx_pc, batches,
                 magnitude, mag_i, scan_j, scans, demodulated>>

(* "EnterCriticalSection (&Modes.data_mutex);" before detect_modeS *)
MainEnter ==
  /\ main_pc = "enter"
  /\ data_mutex = "none"
  /\ data_mutex' = "main"
  /\ main_pc' = "detect"
  /\ scan_j' = 0
  /\ UNCHANGED <<decVars, trkVars, conVars, fixVars, runVars, scanVars, inVars>>
  /\ UNCHANGED <<data, data_ready, Modes_exit, max_messages, rx_pc, batches,
                 magnitude, mag_i, scans, demodulated>>

\* The batch whose complete buffer m is, or -1.
BatchHeld(m) ==
  IF \E b \in 0..(MaxBatches - 1) : m = BufferOf(b)
    THEN CHOOSE b \in 0..(MaxBatches - 1) : m = BufferOf(b)
    ELSE -1

\* A scan start at index j of the magnitude buffer m is counted.
CountScan(sc, m, j) ==
  IF m[j + 1] = Pad THEN sc ELSE [sc EXCEPT ![m[j + 1]] = @ + 1]

(* detect_modeS: one iteration of "for (j = 0; j < mlen - 2*MODES_FULL_LEN; *)
(* j++)", with "if (Modes.exit) break;".                                   *)
MainDetect ==
  /\ main_pc = "detect"
  /\ IF scan_j < ScanLimit /\ ~Modes_exit
       THEN /\ scans' = CountScan(scans, magnitude, scan_j)
            /\ scan_j' = scan_j + 1
            /\ main_pc' = "detect"
            /\ UNCHANGED demodulated
       ELSE /\ demodulated' = IF Modes_exit \/ BatchHeld(magnitude) = -1
                                THEN demodulated
                                ELSE demodulated \cup {BatchHeld(magnitude)}
            /\ main_pc' = "leave"
            /\ UNCHANGED <<scans, scan_j>>
  /\ UNCHANGED <<decVars, trkVars, conVars, fixVars, runVars, scanVars, inVars>>
  /\ UNCHANGED <<data, data_ready, data_mutex, Modes_exit, max_messages,
                 rx_pc, batches, magnitude, mag_i>>

(* "LeaveCriticalSection (&Modes.data_mutex);" and the --max-messages      *)
(* countdown that follows it.                                              *)
MainLeave ==
  /\ main_pc = "leave"
  /\ data_mutex' = "none"
  /\ IF max_messages > 0
       THEN /\ max_messages' = max_messages - 1
            /\ Modes_exit' = (Modes_exit \/ max_messages - 1 = 0)
       ELSE UNCHANGED <<max_messages, Modes_exit>>
  /\ main_pc' = "loop"
  /\ UNCHANGED <<decVars, trkVars, conVars, fixVars, runVars, scanVars, inVars>>
  /\ UNCHANGED <<data, data_ready, rx_pc, batches, magnitude, mag_i, scan_j,
                 scans, demodulated>>

(* signal_handler: "Modes.exit = true;" *)
SignalHandler ==
  /\ ~Modes_exit
  /\ Modes_exit' = TRUE
  /\ UNCHANGED <<decVars, trkVars, conVars, fixVars, runVars, scanVars, inVars>>
  /\ UNCHANGED <<data, data_ready, data_mutex, max_messages, rx_pc, batches,
                 main_pc, magnitude, mag_i, scan_j, scans, demodulated>>

NextRx ==
  \/ RxCall \/ RxEnter \/ RxCopyTail \/ RxCopyNew \/ RxSetReady \/ RxLeave
  \/ MainLoop \/ MainTest \/ MainMagnitude \/ MainReset \/ MainEnter
  \/ MainDetect \/ MainLeave
  \/ SignalHandler


\* The producer is inside its critical section, about to write the buffer
\* or the flag.
RxWriting == data_mutex = "rx" /\ rx_pc \in {"tail", "new", "ready"}

\* The next step of the main thread reads or writes the buffer or the flag.
MainAccessing ==
  \/ main_pc = "test"
  \/ main_pc = "mag" /\ mag_i < data_len
  \/ main_pc = "reset"

\* C1: the consumer never tests or resets data_ready, nor reads Modes.data,
\* while the producer callback is inside its critical section writing them.
C1_MutexProtectsBuffer == ~(RxWriting /\ MainAccessing)

\* The stream positions that the scans of batches b-1 and b have to cover
\* between them: from the first cell of the buffer of b-1 to the last
\* scan start of the buffer of b.
DueAfter(b) ==
  {s \in 0..(StreamLen - 1) :
     /\ s >= (b - 1) * DataSamples - TailLen
     /\ s < b * DataSamples - TailLen + ScanLimit}

\* C2: once two consecutive batches were demodulated, every start offset of
\* the stream they cover was a scan start exactly once: none is skipped at
\* the batch boundary and none is scanned in both batches.
C2_EveryOffsetScannedOnce ==
  \A b \in 1..(MaxBatches - 1) :
    (b - 1 \in demodulated /\ b \in demodulated)
      => \A s \in DueAfter(b) : scans[s] = 1

\* C12: the main thread never holds data_mutex while the scan loop of
\* detect_modeS is running, so that the producer callback is not kept
\* waiting for the length of a demodulation.
C12_DetectWithoutMutex ==
  ~(main_pc = "detect" /\ scan_j > 0 /\ data_mutex = "main")

\* The steps of the main thread, and the steps of the producer once its
\* callback was called and did not return at the test of the flag.
MainStep ==
  \/ MainLoop \/ MainTest \/ MainMagnitude \/ MainReset \/ MainEnter
  \/ MainDetect \/ MainLeave

RxStep == RxEnter \/ RxCopyTail \/ RxCopyNew \/ RxSetReady \/ RxLeave

MessageStarts == {BufferOf(1)[1], BufferOf(2)[1]}

\* The number of Mode S messages detect_modeS has found so far: one for
\* every scan that started on the first sample of a message.
RECURSIVE MessagesFound(_, _)
MessagesFound(sc, starts) ==
  IF starts = {} THEN 0
  ELSE LET s == CHOOSE x \in starts : TRUE
       IN  sc[s] + MessagesFound(sc, starts \ {s})

MessagesProcessed == MessagesFound(scans, MessageStarts)

\* An iteration of main_data_loop that found the flag unset ends here with
\* the --max-messages countdown still running.
CountdownStep ==
  main_pc = "leave" /\ max_messages > 0 /\ ~Modes_exit /\ main_pc' = "loop"

\* C23: with --max-messages N (here N = 2) the main loop sets the shutdown
\* flag exactly when N Mode S messages have been processed: an iteration
\* sets the flag if and only if N messages have been processed at its end.
C23_ExitAfterNMessages ==
  [][CountdownStep => (Modes_exit' <=> MessagesProcessed >= 2)]_vars

\* The producer has stored batch number batches - 1 and set data_ready for
\* it: it is not between its first memcpy and "Modes.data_ready = true".
BatchFlagged == batches > 0 /\ rx_pc \in {"leave", "idle", "enter"}

\* The magnitude of at least one new sample of the batch in Modes.data was
\* computed.
MagnitudesOfBatch ==
  \E i \in (TailLen + 1)..data_len : magnitude[i] = data[i]

\* "Modes.data_ready = false;" is executed.
ResetStep == main_pc = "reset" /\ main_pc' = "enter"

\* C25: the consumer skips no batch: when main_data_loop resets data_ready
\* after rx_callback stored a batch and set data_ready for it, the
\* magnitudes it goes on to demodulate were computed from that batch.
C25_NoBatchSkipped ==
  [][(ResetStep /\ BatchFlagged) => MagnitudesOfBatch]_vars

(***************************************************************************)
(* Part 2.  The CRC engine, the cache of recently seen ICAO addresses and  *)
(* decode_modeS_message.                                                   *)
(*                                                                         *)
(* A message is the sequence of its bytes; byte k of the C array is        *)
(* element k + 1 of the sequence.  Bit j of a message is counted as the    *)
(* program counts it, from the most significant bit of byte 0.             *)
(***************************************************************************)

\* Address-cache index width: MODES_ICAO_CACHE_LEN is 2^CacheBits.
CacheBits == 3

\* Seconds of wall-clock time the model lets pass.
MaxElapsed == 62

RECURSIVE Pow2(_)
Pow2(n) == IF n = 0 THEN 1 ELSE 2 * Pow2(n - 1)

RECURSIVE XorBits(_, _)
XorBits(a, b) ==
  IF a = 0 THEN b
  ELSE IF b = 0 THEN a
  ELSE (((a % 2) + (b % 2)) % 2) + 2 * XorBits(a \div 2, b \div 2)

XorNibble == [a \in 0..15 |-> [b \in 0..15 |-> XorBits(a, b)]]

XorByte(a, b) == 16 * XorNibble[a \div 16][b \div 16] + XorNibble[a % 16][b % 16]

\* a ^ b for values of up to 24 bits
BitXor(a, b) ==
  IF a = 0 THEN b
  ELSE IF b = 0 THEN a
  ELSE 65536 * XorByte(a \div 65536, b \div 65536)
       + 256 * XorByte((a \div 256) % 256, (b \div 256) % 256)
       + XorByte(a % 256, b % 256)

MODES_LONG_MSG_BITS == 112
MODES_SHORT_MSG_BITS == 56
MODES_LONG_MSG_BYTES == MODES_LONG_MSG_BITS \div 8
MODES_ICAO_CACHE_LEN == Pow2(CacheBits)
MODES_ICAO_CACHE_TTL == 60

modeS_checksum_table == <<
  \h3935EA, \h1C9AF5, \hF1B77E, \h78DBBF, \hC397DB, \h9E31E9, \hB0E2F0, \h587178,
  \h2C38BC, \h161C5E, \h0B0E2F, \hFA7D13, \h82C48D, \hBE9842, \h5F4C21, \hD05C14,
  \h682E0A, \h341705, \hE5F186, \h72F8C3, \hC68665, \h9CB936, \h4E5C9B, \hD8D449,
  \h939020, \h49C810, \h24E408, \h127204, \h093902, \h049C81, \hFDB444, \h7EDA22,
  \h3F6D11, \hE04C8C, \h702646, \h381323, \hE3F395, \h8E03CE, \h4701E7, \hDC7AF7,
  \h91C77F, \hB719BB, \hA476D9, \hADC168, \h56E0B4, \h2B705A, \h15B82D, \hF52612,
  \h7A9309, \hC2B380, \h6159C0, \h30ACE0, \h185670, \h0C2B38, \h06159C, \h030ACE,
  \h018567, \hFF38B7, \h80665F, \hBFC92B, \hA01E91, \hAFF54C, \h57FAA6, \h2BFD53,
  \hEA04AD, \h8AF852, \h457C29, \hDD4410, \h6EA208, \h375104, \h1BA882, \h0DD441,
  \hF91024, \h7C8812, \h3E4409, \hE0D800, \h706C00, \h383600, \h1C1B00, \h0E0D80,
  \h0706C0, \h038360, \h01C1B0, \h00E0D8, \h00706C, \h003836, \h001C1B, \hFFF409,
  \h000000, \h000000, \h000000, \h000000, \h000000, \h000000, \h000000, \h000000,
  \h000000, \h000000, \h000000, \h000000, \h000000, \h000000, \h000000, \h000000,
  \h000000, \h000000, \h000000, \h000000, \h000000, \h000000, \h000000, \h000000 >>

\* msg[j/8] & (1 << (7 - j%8))
BitSet(msg, j) == (msg[(j \div 8) + 1] \div Pow2(7 - (j % 8))) % 2 = 1

\* XOR of the table entries of the bits lo..hi that are set in msg
RECURSIVE ChecksumRange(_, _, _, _)
ChecksumRange(msg, offset, lo, hi) ==
  IF lo = hi
    THEN IF BitSet(msg, lo) THEN modeS_checksum_table[lo + offset + 1] ELSE 0
    ELSE LET mid == (lo + hi) \div 2 IN
         BitXor(ChecksumRange(msg, offset, lo, mid),
                ChecksumRange(msg, offset, mid + 1, hi))

modeS_checksum(msg, bits) ==
  ChecksumRange(msg,
                IF bits = MODES_LONG_MSG_BITS
                  THEN 0 ELSE MODES_LONG_MSG_BITS - MODES_SHORT_MSG_BITS,
                0, bits - 1)

modeS_message_len_by_type(type) ==
  IF type \in {16, 17, 19, 20, 21}
    THEN MODES_LONG_MSG_BITS ELSE MODES_SHORT_MSG_BITS

\* aux[i/8] ^= 1 << (7 - i%8)
FlipBit(msg, i) ==
  [msg EXCEPT ![(i \div 8) + 1] = XorByte(@, Pow2(7 - (i % 8)))]

\* The last three bytes of a message of the given length, as one number.
TrailingCRC(msg, bits) ==
  msg[(bits \div 8) - 2] * 65536 + msg[(bits \div 8) - 1] * 256 + msg[bits \div 8]

CrcMatches(msg, bits) == TrailingCRC(msg, bits) = modeS_checksum(msg, bits)

\* First i in lo..hi, in the order of the loop, whose flip repairs msg.
RECURSIVE FirstSingleFix(_, _, _, _)
FirstSingleFix(msg, bits, lo, hi) ==
  IF lo > hi THEN -1
  ELSE IF lo = hi
    THEN IF CrcMatches(FlipBit(msg, lo), bits) THEN lo ELSE -1
    ELSE LET mid == (lo + hi) \div 2
             l == FirstSingleFix(msg, bits, lo, mid)
         IN IF l # -1 THEN l ELSE FirstSingleFix(msg, bits, mid + 1, hi)

\* A repair that reports the error bit and leaves the buffer as it was.
fix_single_bit_errors_NoWriteBack(msg, bits) ==
  [error_bit |-> FirstSingleFix(msg, bits, 0, bits - 1), msg |-> msg]

\* A repair that reports the bit after the one it flipped.
fix_single_bit_errors_OffByOne(msg, bits) ==
  LET i == FirstSingleFix(msg, bits, 0, bits - 1) IN
  [error_bit |-> IF i = -1 THEN -1 ELSE i + 1,
   msg |-> IF i = -1 THEN msg ELSE FlipBit(msg, i)]

\* Returns the error bit and the buffer the function leaves in msg.
fix_single_bit_errors(msg, bits) ==
  LET i == FirstSingleFix(msg, bits, 0, bits - 1) IN
  [error_bit |-> i, msg |-> IF i = -1 THEN msg ELSE FlipBit(msg, i)]

\* First pair (j, i), j in lo..hi and i > j, in the order of the two loops.
RECURSIVE FirstTwoFix(_, _, _, _)
FirstTwoFix(msg, bits, lo, hi) ==
  IF lo = hi
    THEN LET i == FirstSingleFix(FlipBit(msg, lo), bits, lo + 1, bits - 1) IN
         IF i # -1 THEN lo + 256 * i ELSE -1
    ELSE LET mid == (lo + hi) \div 2
             l == FirstTwoFix(msg, bits, lo, mid)
         IN IF l # -1 THEN l ELSE FirstTwoFix(msg, bits, mid + 1, hi)

\* A search over the pairs that never finds one.
fix_two_bits_errors_None(msg, bits) == [error_bit |-> -1, msg |-> msg]

fix_two_bits_errors(msg, bits) ==
  LET r == FirstTwoFix(msg, bits, 0, bits - 1) IN
  [error_bit |-> r,
   msg |-> IF r = -1 THEN msg ELSE FlipBit(FlipBit(msg, r % 256), r \div 256)]

\* Low and high 16 bits of the product of two 16-bit values.
Mul16Low(a, b) ==
  ((a * (b % 256)) + 256 * ((a * (b \div 256)) % 256)) % 65536

Mul16High(a, b) ==
  (((a * (b % 256)) + 256 * ((a * (b \div 256)) % 256)) \div 65536
   + ((a * (b \div 256)) \div 256)) % 65536

\* <<hi, lo>> * 0x45D9F3B on a uint32_t kept as its two 16-bit halves.
HashMultiply(hi, lo) ==
  LET mhi == \h45D9F3B \div 65536
      mlo == \h45D9F3B % 65536
  IN << (Mul16High(lo, mlo) + Mul16Low(hi, mlo) + Mul16Low(lo, mhi)) % 65536,
        Mul16Low(lo, mlo) >>

\* One round "a = ((a >> 16) ^ a) * 0x45D9F3B".
HashRound(a) == HashMultiply(a[1], BitXor(a[1], a[2]))

\* "a = (a >> 16) ^ a; return a & (MODES_ICAO_CACHE_LEN - 1)".
HashMask(a) == BitXor(a[1], a[2]) % MODES_ICAO_CACHE_LEN

ICAO_cache_hash_address(a) ==
  HashMask(HashRound(HashRound(<<a \div 65536, a % 65536>>)))

aircraft_get_addr(a0, a1, a2) == a0 * 65536 + a1 * 256 + a2

\* The cache after ICAO_cache_add_address (addr).
ICAO_cache_add_address(cache, addr) ==
  [cache EXCEPT ![ICAO_cache_hash_address(addr)] = [addr |-> addr, seen |-> now]]

\* The test on the slot with "<" in place of "<=".
SlotRecentlySeen_Strict(slot, addr) ==
  slot.addr # 0 /\ slot.addr = addr /\ (now - slot.seen) < MODES_ICAO_CACHE_TTL

\* The test of ICAO_address_recently_seen on the slot of addr.
SlotRecentlySeen(slot, addr) ==
  slot.addr # 0 /\ slot.addr = addr /\ (now - slot.seen) <= MODES_ICAO_CACHE_TTL

ICAO_address_recently_seen(addr) ==
  SlotRecentlySeen(ICAO_cache[ICAO_cache_hash_address(addr)], addr)

(***************************************************************************)
(* The messages the demodulator hands to the decoder in this model, each   *)
(* padded to MODES_LONG_MSG_BYTES as the buffer of detect_modeS is.        *)
(***************************************************************************)

\* DF17 from 4840D6, aircraft identification, valid CRC
DF17_Valid ==
  <<\h8D, \h48, \h40, \hD6, \h20, \h2C, \hC3, \h71, \hC3, \h2C, \hE0, \h57, \h60, \h98>>

\* the same with bit 40 flipped, and with bits 5 and 6 flipped
DF17_OneBitError == FlipBit(DF17_Valid, 40)
DF17_TwoBitError == FlipBit(FlipBit(DF17_Valid, 5), 6)

\* DF11 from AC82EC, valid CRC, and the same with bit 10 flipped
DF11_AC82EC ==
  <<\h5D, \hAC, \h82, \hEC, \h72, \h6B, \hF4, \h00, \h00, \h00, \h00, \h00, \h00, \h00>>

DF11_OneBitError == FlipBit(DF11_AC82EC, 10)

\* DF11 from A08C4A, which shares the cache slot of AC82EC
DF11_A08C4A ==
  <<\h5D, \hA0, \h8C, \h4A, \h79, \h3A, \hA5, \h00, \h00, \h00, \h00, \h00, \h00, \h00>>

\* DF11 whose address field is 000000, valid CRC
DF11_Zero ==
  <<\h58, \h00, \h00, \h00, \hE0, \hEF, \h0D, \h00, \h00, \h00, \h00, \h00, \h00, \h00>>

\* DF20 and DF24 whose AP field resolves to AC82EC
DF20_AC82EC ==
  <<\hA0, \h00, \h01, \h38, \h00, \h00, \h00, \h00, \h00, \h00, \h00, \h83, \h7B, \h3F>>

DF24_AC82EC ==
  <<\hC0, \h11, \h22, \h33, \h5E, \h39, \h1E, \h00, \h00, \h00, \h00, \h00, \h00, \h00>>

\* DF4 whose AP field resolves to 000000
DF4_Zero ==
  <<\h20, \h00, \h01, \h38, \h8F, \h3A, \hDB, \h00, \h00, \h00, \h00, \h00, \h00, \h00>>

\* DF18, whose length modeS_message_len_by_type gives as 56 bits, with a
\* CRC that is valid over these 56 bits
DF18_Valid ==
  <<\h90, \h48, \h40, \hD6, \h22, \hDF, \h51, \h00, \h00, \h00, \h00, \h00, \h00, \h00>>

InputFrames ==
  { DF17_Valid, DF17_OneBitError, DF17_TwoBitError, DF11_AC82EC,
    DF11_OneBitError, DF11_A08C4A, DF11_Zero, DF20_AC82EC, DF24_AC82EC,
    DF4_Zero, DF18_Valid }

\* Addresses the properties quantify over; 123456 is never transmitted.
Addresses == { \h000000, \h4840D6, \hAC82EC, \hA08C4A, \h8C82EC, \h123456 }

\* The first part of decode_modeS_message: message type and length, the
\* CRC comparison and the error correction of DF11 and DF17.
CheckCRC(_msg, aggr) ==
  LET msg_type == _msg[1] \div 8
      msg_bits == modeS_message_len_by_type(msg_type)
      CRC      == TrailingCRC(_msg, msg_bits)
      crc2     == modeS_checksum(_msg, msg_bits)
      Result(m, c, ok, e) ==
        [msg |-> m, msg_type |-> msg_type, msg_bits |-> msg_bits,
         CRC |-> c, CRC_ok |-> ok, error_bit |-> e]
      Fixed(f) == Result(f.msg, modeS_checksum(f.msg, msg_bits), TRUE, f.error_bit)
      TryTwo(two) ==
        IF two.error_bit # -1 THEN Fixed(two) ELSE Result(_msg, CRC, FALSE, -1)
      TrySingle(single) ==
        IF single.error_bit # -1
          THEN Fixed(single)
          ELSE IF aggr /\ msg_type = 17
                 THEN TryTwo(fix_two_bits_errors(_msg, msg_bits))
                 ELSE Result(_msg, CRC, FALSE, -1)
  IN IF CRC = crc2 \/ msg_type \notin {11, 17}
       THEN Result(_msg, CRC, CRC = crc2, -1)
       ELSE TrySingle(fix_single_bit_errors(_msg, msg_bits))

\* CheckCRC and modeS_checksum of the input frames, computed once.
CheckedFrames == [m \in InputFrames |-> [aggr \in BOOLEAN |-> CheckCRC(m, aggr)]]

FrameChecksums ==
  [m \in InputFrames |-> modeS_checksum(m, modeS_message_len_by_type(m[1] \div 8))]

ChecksumOf(msg, bits) ==
  IF msg \in InputFrames THEN FrameChecksums[msg] ELSE modeS_checksum(msg, bits)

\* aux after "aux[last_byte] ^= crc & 0xFF" and the two lines after it.
XorTrailingCRC(msg, last_byte, crc) ==
  [msg EXCEPT ![last_byte + 1] = XorByte(@, crc % 256),
              ![last_byte]     = XorByte(@, (crc \div 256) % 256),
              ![last_byte - 1] = XorByte(@, (crc \div 65536) % 256)]

\* The last step of brute_force_AP, on the three recovered address bytes.
AcceptIfSeen(m, a0, a1, a2) ==
  IF ICAO_address_recently_seen(aircraft_get_addr(a0, a1, a2))
    THEN [ok |-> TRUE, mm |-> [m EXCEPT !.AA = <<a0, a1, a2>>]]
    ELSE [ok |-> FALSE, mm |-> m]

LookupRecovered(m, aux, last_byte) ==
  AcceptIfSeen(m, aux[last_byte - 1], aux[last_byte], aux[last_byte + 1])

\* brute_force_AP accepting every message without looking at the cache.
brute_force_AP_AcceptAll(msg, m) == [ok |-> TRUE, mm |-> m]

\* Returns the return value and the message record the function leaves.
brute_force_AP(msg, m) ==
  IF m.msg_type \in {0, 4, 5, 16, 20, 21, 24}
    THEN LookupRecovered(
           m,
           XorTrailingCRC(msg, (m.msg_bits \div 8) - 1, ChecksumOf(msg, m.msg_bits)),
           (m.msg_bits \div 8) - 1)
    ELSE [ok |-> FALSE, mm |-> m]

\* "mm" before any message was decoded.
NoMessage ==
  [msg |-> [i \in 1..MODES_LONG_MSG_BYTES |-> 0], msg_type |-> -1, msg_bits |-> 0,
   CRC |-> 0, CRC_ok |-> FALSE, error_bit |-> -1, ca |-> 0, AA |-> <<0, 0, 0>>,
   ME_type |-> 0, ME_subtype |-> 0, flight_status |-> 0, altitude |-> 0,
   odd_flag |-> 0, raw_latitude |-> 0, raw_longitude |-> 0,
   flight |-> [i \in 1..9 |-> 0]]

\* Characters are their ASCII codes; a char array is a sequence that holds
\* element [i] of the source at index i + 1.
Space == 32

\* "?ABCDEFGHIJKLMNOPQRSTUVWXYZ????? ???????????????0123456789??????"
AIS_charset(c) ==
  IF c >= 1 /\ c <= 26 THEN 64 + c
  ELSE IF c = 32 THEN Space
  ELSE IF c >= 48 /\ c <= 57 THEN c
  ELSE 63

\* mm->flight of an Aircraft Identification message (ME type 1 to 4).
DecodeFlight(msg) ==
  << AIS_charset(msg[6] \div 4),
     AIS_charset((msg[6] % 4) * 16 + (msg[7] \div 16)),
     AIS_charset((msg[7] % 16) * 4 + (msg[8] \div 64)),
     AIS_charset(msg[8] % 64),
     AIS_charset(msg[9] \div 4),
     AIS_charset((msg[9] % 4) * 16 + (msg[10] \div 16)),
     AIS_charset((msg[10] % 16) * 4 + (msg[11] \div 64)),
     AIS_charset(msg[11] % 64),
     0 >>

\* An airborne position message: DF17 with ME type 9 to 18.
IsPosition(msg_type, msg) ==
  msg_type = 17 /\ msg[5] \div 8 >= 9 /\ msg[5] \div 8 <= 18

\* The M bit and the Q bit of the 13-bit altitude field: "msg[3] & (1 << 6)"
\* and "msg[3] & (1 << 4)".
AC13_m_bit(msg) == (msg[4] \div 64) % 2
AC13_q_bit(msg) == (msg[4] \div 16) % 2

\* "N is the 11 bit integer resulting from the removal of bit Q and M"
AC13_n(msg) ==
  (msg[3] % 32) * 64 + (msg[4] \div 128) * 32 + ((msg[4] \div 32) % 2) * 16
    + (msg[4] % 16)

\* The return value of decode_AC13_field: 25 * n - 1000, not below 0, for
\* M = 0 and Q = 1; the two branches left to do fall through to "return (0);".
decode_AC13_field(msg) ==
  IF AC13_m_bit(msg) = 0 /\ AC13_q_bit(msg) = 1
    THEN IF 25 * AC13_n(msg) - 1000 < 0 THEN 0 ELSE 25 * AC13_n(msg) - 1000
    ELSE 0

\* The fields decode_modeS_message reads out of the checked message c.msg.
DecodeFields(c) ==
  [msg |-> c.msg, msg_type |-> c.msg_type, msg_bits |-> c.msg_bits,
   CRC |-> c.CRC, CRC_ok |-> c.CRC_ok, error_bit |-> c.error_bit,
   ca |-> c.msg[1] % 8,
   AA |-> <<c.msg[2], c.msg[3], c.msg[4]>>,
   ME_type |-> c.msg[5] \div 8,
   ME_subtype |-> c.msg[5] % 8,
   flight_status |-> c.msg[1] % 8,
   altitude |->
     IF c.msg_type \in {0, 4, 16, 20} THEN decode_AC13_field(c.msg) ELSE 0,
   odd_flag |->
     IF IsPosition(c.msg_type, c.msg) THEN 4 * ((c.msg[7] \div 4) % 2) ELSE 0,
   raw_latitude |->
     IF IsPosition(c.msg_type, c.msg)
       THEN (c.msg[7] % 4) * 32768 + c.msg[8] * 128 + (c.msg[9] \div 2)
       ELSE 0,
   raw_longitude |->
     IF IsPosition(c.msg_type, c.msg)
       THEN (c.msg[9] % 2) * 65536 + c.msg[10] * 256 + c.msg[11]
       ELSE 0,
   flight |->
     IF c.msg_type = 17 /\ c.msg[5] \div 8 >= 1 /\ c.msg[5] \div 8 <= 4
       THEN DecodeFlight(c.msg)
       ELSE [i \in 1..9 |-> 0]]

\* "if (brute_force_AP(msg, mm)) mm->CRC_ok = true; else mm->CRC_ok = false;"
SetCRCFromAP(ap) ==
  [mm |-> [ap.mm EXCEPT !.CRC_ok = ap.ok], ICAO_cache |-> ICAO_cache]

\* The address check with the insertion done for corrected messages too.
CheckAddress_InsertCorrected(m) ==
  IF m.msg_type # 11 /\ m.msg_type # 17
    THEN SetCRCFromAP(brute_force_AP(m.msg, m))
    ELSE [mm |-> m,
          ICAO_cache |->
            IF m.CRC_ok
              THEN ICAO_cache_add_address(
                     ICAO_cache, aircraft_get_addr(m.AA[1], m.AA[2], m.AA[3]))
              ELSE ICAO_cache]

\* The address check of decode_modeS_message, on the fields read so far.
CheckAddress(m) ==
  IF m.msg_type # 11 /\ m.msg_type # 17
    THEN SetCRCFromAP(brute_force_AP(m.msg, m))
    ELSE [mm |-> m,
          ICAO_cache |->
            IF m.CRC_ok /\ m.error_bit = -1
              THEN ICAO_cache_add_address(
                     ICAO_cache, aircraft_get_addr(m.AA[1], m.AA[2], m.AA[3]))
              ELSE ICAO_cache]

\* Returns the message record and the cache the function leaves.
decode_modeS_message(_msg) ==
  CheckAddress(DecodeFields(CheckedFrames[_msg][aggressive]))

\* time(NULL) when the program starts
StartTime == 1000

ClockSteps == {MODES_ICAO_CACHE_TTL \div 2, (MODES_ICAO_CACHE_TTL \div 2) + 1}

InitDec ==
  /\ ICAO_cache = [h \in 0..(MODES_ICAO_CACHE_LEN - 1) |-> [addr |-> 0, seen |-> 0]]
  /\ now = StartTime
  /\ aggressive \in BOOLEAN
  /\ mm = NoMessage
  /\ added_at = [a \in Addresses |-> -1]
  /\ live = {}

\* The caller's state after a decode that returned r, with the history of
\* the calls of ICAO_cache_add_address.
AfterDecode(r, addr, adds) ==
  /\ mm' = r.mm
  /\ ICAO_cache' = r.ICAO_cache
  /\ added_at' = IF adds THEN [added_at EXCEPT ![addr] = now] ELSE added_at
  /\ live' = IF adds
               THEN {a \in live : ICAO_cache_hash_address(a)
                                    # ICAO_cache_hash_address(addr)} \cup {addr}
               ELSE live

Decoded(r) ==
  AfterDecode(r, aircraft_get_addr(r.mm.AA[1], r.mm.AA[2], r.mm.AA[3]),
              r.mm.msg_type \in {11, 17} /\ r.mm.CRC_ok /\ r.mm.error_bit = -1)

\* The decoder is handed one demodulated message.
Decode(_msg) ==
  /\ Decoded(decode_modeS_message(_msg))
  /\ UNCHANGED <<now, aggressive>>
  /\ UNCHANGED <<rxVars, trkVars, conVars, fixVars, runVars, scanVars, inVars>>

DecodeMessage == \E _msg \in InputFrames : Decode(_msg)

\* Wall-clock time passes.
ClockTick ==
  /\ \E d \in ClockSteps :
       /\ now + d <= StartTime + MaxElapsed
       /\ now' = now + d
  /\ UNCHANGED <<ICAO_cache, aggressive, mm, added_at, live>>
  /\ UNCHANGED <<rxVars, trkVars, conVars, fixVars, runVars, scanVars, inVars>>

NextDec == DecodeMessage \/ ClockTick

(***************************************************************************)
(* Properties of the decoder and of the address cache.                     *)
(***************************************************************************)

\* The 24-bit address of a message record.
AddressOf(m) == aircraft_get_addr(m.AA[1], m.AA[2], m.AA[3])

\* The cache slot an address hashes to.
SlotOf(cache, a) == cache[ICAO_cache_hash_address(a)]

\* A step of the decoder: the clock stands still while a message is decoded.
DecodeStep == now' = now

\* C6 (as stated): every DF11 or DF17 message that the decoder reports
\* CRC-OK, also one that became valid through a one- or two-bit fix, has its
\* address in the cache of recently seen addresses after the decode.
C6_EveryCrcOkAddressCached ==
  (mm.msg_type \in {11, 17} /\ mm.CRC_ok)
    => SlotOf(ICAO_cache, AddressOf(mm)).addr = AddressOf(mm)

\* C6 (amended): a decode of a DF11 or DF17 message stores the address with
\* the current time in its cache slot if the message passed the CRC without
\* correction, and leaves the whole cache as it was if the message failed the
\* CRC or passed it only through a one- or two-bit fix.
C6_OnlyUncorrectedAddressCached ==
  [][(DecodeStep /\ mm'.msg_type \in {11, 17})
       => IF mm'.CRC_ok /\ mm'.error_bit = -1
            THEN ICAO_cache' =
                   [ICAO_cache EXCEPT ![ICAO_cache_hash_address(AddressOf(mm'))] =
                      [addr |-> AddressOf(mm'), seen |-> now]]
            ELSE ICAO_cache' = ICAO_cache]_vars

\* A DF17 message was accepted through a two-bit fix and its address is not
\* in the cache.
C6_Witness ==
  /\ mm.msg_type = 17 /\ mm.CRC_ok /\ mm.error_bit > 255
  /\ SlotOf(ICAO_cache, AddressOf(mm)).addr # AddressOf(mm)

\* The address recovered from the AP field: trailing three bytes XOR the
\* checksum computed over the message.
RecoveredAddress(msg, bits) == BitXor(TrailingCRC(msg, bits), ChecksumOf(msg, bits))

SlotFresh(A) ==
  /\ SlotOf(ICAO_cache, A).addr = A
  /\ now - SlotOf(ICAO_cache, A).seen <= MODES_ICAO_CACHE_TTL

Frac(n, d) == [n |-> n, d |-> d]

FracNeg(x) == Frac(-x.n, x.d)

FracAbs(x) == IF x.n < 0 THEN FracNeg(x) ELSE x

\* x < deg, x >= deg and x > deg for a whole number of degrees
LessDeg(x, deg)    == x.n < deg * x.d
AtLeastDeg(x, deg) == x.n >= deg * x.d
MoreDeg(x, deg)    == x.n > deg * x.d

\* x - 360
Minus360(x) == Frac(x.n - 360 * x.d, x.d)

\* The first k decimals of rem / d (rem < d), as one number.
RECURSIVE Decimals(_, _, _, _)
Decimals(rem, d, k, acc) ==
  IF k = 0 THEN acc
  ELSE Decimals((rem * 10) % d, d, k - 1, acc * 10 + ((rem * 10) \div d))

\* "res = a % b; if (res < 0) res += b;" with the remainder of C
CPR_mod_func(a, b) ==
  IF a >= 0 THEN a % b
  ELSE IF (-a) % b = 0 THEN 0 ELSE b - ((-a) % b)

\* The table of CPR_NL_func: <<degrees, decimals 1..8 of the bound, NL>>
NL_table == <<
  <<10, 47047130, 59>>, <<14, 82817437, 58>>, <<18, 18626357, 57>>, <<21, 2939493, 56>>,
  <<23, 54504487, 55>>, <<25, 82924707, 54>>, <<27, 93898710, 53>>, <<29, 91135686, 52>>,
  <<31, 77209708, 51>>, <<33, 53993436, 50>>, <<35, 22899598, 49>>, <<36, 85025108, 48>>,
  <<38, 41241892, 47>>, <<39, 92256684, 46>>, <<41, 38651832, 45>>, <<42, 80914012, 44>>,
  <<44, 19454951, 43>>, <<45, 54626723, 42>>, <<46, 86733252, 41>>, <<48, 16039128, 40>>,
  <<49, 42776439, 39>>, <<50, 67150166, 38>>, <<51, 89342469, 37>>, <<53, 9516153, 36>>,
  <<54, 27817472, 35>>, <<55, 44378444, 34>>, <<56, 59318756, 33>>, <<57, 72747354, 32>>,
  <<58, 84763776, 31>>, <<59, 95459277, 30>>, <<61, 4917774, 29>>, <<62, 13216659, 28>>,
  <<63, 20427479, 27>>, <<64, 26616523, 26>>, <<65, 31845310, 25>>, <<66, 36171008, 24>>,
  <<67, 39646774, 23>>, <<68, 42322022, 22>>, <<69, 44242631, 21>>, <<70, 45451075, 20>>,
  <<71, 45986473, 19>>, <<72, 45884545, 18>>, <<73, 45177442, 17>>, <<74, 43893416, 16>>,
  <<75, 42056257, 15>>, <<76, 39684391, 14>>, <<77, 36789461, 13>>, <<78, 33374083, 12>>,
  <<79, 29428225, 11>>, <<80, 24923213, 10>>, <<81, 19801349, 9>>, <<82, 13956981, 8>>,
  <<83, 7199445, 7>>, <<83, 99173563, 6>>, <<84, 89166191, 5>>, <<85, 75541621, 4>>,
  <<86, 53536998, 3>>, <<87, 0, 2>> >>

\* The rows of the table whose bound is above whole + decimals / 10^8.
RowsAbove(whole, decimals) ==
  {i \in 1..Len(NL_table) :
     \/ whole < NL_table[i][1]
     \/ whole = NL_table[i][1] /\ decimals < NL_table[i][2]}

FirstRow(rows) == CHOOSE i \in rows : \A k \in rows : i <= k

NLOfRows(rows) == IF rows = {} THEN 1 ELSE NL_table[FirstRow(rows)][3]

\* CPR_NL_func on a latitude that is not negative
NLOfAbs(lat) ==
  NLOfRows(RowsAbove(lat.n \div lat.d, Decimals(lat.n % lat.d, lat.d, 8, 0)))

CPR_NL_func(lat) == NLOfAbs(FracAbs(lat))

ClampN(nl) == IF nl < 1 THEN 1 ELSE nl

CPR_N_func(lat, is_odd) == ClampN(CPR_NL_func(lat) - is_odd)

\* floor (x / 131072 + 0.5)
RoundIndex(x) == (2 * x + 131072) \div 262144

\* "if (rlat >= 270) rlat -= 360;"
WrapLat(rlat) == IF AtLeastDeg(rlat, 270) THEN Minus360(rlat) ELSE rlat

\* "if (a->position.lon > 180) a->position.lon -= 360;"
WrapLon(lon) == IF MoreDeg(lon, 180) THEN Minus360(lon) ELSE lon

\* AirDlat0 * (CPR_mod_func (j, 60) + lat0 / 131072), with 360/60 = 6
Rlat0(j, lat0) == WrapLat(Frac(6 * (CPR_mod_func(j, 60) * 131072 + lat0), 131072))

\* AirDlat1 * (CPR_mod_func (j, 59) + lat1 / 131072), with 360/131072 = 45/16384
Rlat1(j, lat1) ==
  WrapLat(Frac(45 * (CPR_mod_func(j, 59) * 131072 + lat1), 59 * 16384))

\* CPR_Dlong_func (rlat, is_odd) * (CPR_mod_func (m, ni) + lon / 131072)
Longitude(m, ni, lon) ==
  WrapLon(Frac(45 * (CPR_mod_func(m, ni) * 131072 + lon), ni * 16384))

\* The longitude index m
LonIndex(lon0, lon1, nl) == RoundIndex(lon0 * (nl - 1) - lon1 * nl)

\* enum a_show_t
A_SHOW_FIRST_TIME == 1
A_SHOW_LAST_TIME  == 2
A_SHOW_NORMAL     == 3
A_SHOW_NONE       == 4

\* The network services that accept readers.
MODES_NET_SERVICE_RAW_OUT == "RAW_OUT"
MODES_NET_SERVICE_SBS_OUT == "SBS_OUT"
MODES_NET_SERVICE_HTTP    == "HTTP"

Services ==
  {MODES_NET_SERVICE_RAW_OUT, MODES_NET_SERVICE_SBS_OUT, MODES_NET_SERVICE_HTTP}

\* "Refreshes interactive data every 250 msec"
MODES_INTERACTIVE_REFRESH_TIME == 250

\* The age above which the maintenance pass drops a record
\* (Modes.interactive_ttl), and the age above which it tags it "last time".
TTL_remove == 60000
TTL_show   == 59800

\* Modes.interactive_rows: the number of aircraft rows of the screen
interactive_rows == 1

\* A pos_t that was never set.
ZeroPos == [lat |-> Frac(0, 1), lon |-> Frac(0, 1)]

\* VALID_POS: the position is set and inside the ranges of latitude and
\* longitude.
VALID_POS(pos) ==
  /\ pos.lat.n # 0
  /\ pos.lon.n # 0
  /\ LessDeg(FracAbs(pos.lat), 90)
  /\ LessDeg(FracAbs(pos.lon), 180)

\* An estimated position: the position it was projected from and the
\* distance travelled since, in knots * msec.
Estimate(pos, travel) == [lat |-> pos.lat, lon |-> pos.lon, travel |-> travel]

\* The record aircraft_find_or_create appends for a new address.
NewAircraft(addr, t) ==
  [addr |-> addr, seen_first |-> t, seen_last |-> t, messages |-> 0,
   show |-> A_SHOW_FIRST_TIME, identity |-> 0, altitude |-> 0,
   flight |-> [i \in 1..9 |-> 0],
   speed |-> 0, heading |-> 0, heading_is_valid |-> FALSE,
   odd_CPR_lat |-> 0, odd_CPR_lon |-> 0, odd_CPR_time |-> 0,
   even_CPR_lat |-> 0, even_CPR_lon |-> 0, even_CPR_time |-> 0,
   position |-> ZeroPos, EST_position |-> Estimate(ZeroPos, 0),
   EST_seen_last |-> 0]

HasAircraft(list, addr) == \E i \in DOMAIN list : list[i].addr = addr

\* The first record of the list with this address.
aircraft_find(list, addr) ==
  CHOOSE i \in DOMAIN list :
    /\ list[i].addr = addr
    /\ \A k \in DOMAIN list : list[k].addr = addr => i <= k

\* A lookup that never finds the address.
aircraft_find_or_create_AlwaysAppend(list, addr, t) ==
  Append(list, NewAircraft(addr, t))

\* The list after aircraft_find_or_create (addr, now).
aircraft_find_or_create(list, addr, t) ==
  IF HasAircraft(list, addr) THEN list ELSE Append(list, NewAircraft(addr, t))

LaterOf(t1, t2) == IF t1 > t2 THEN t1 ELSE t2

EarlierOf(t1, t2) == IF t1 > t2 THEN t2 ELSE t1

\* set_home_distance with the earlier of the two times as reference.
set_home_distance_Earlier(a) ==
  IF home_pos_ok /\ VALID_POS(a.position)
  THEN [a EXCEPT !.EST_position = Estimate(a.position, 0),
                 !.EST_seen_last =
                    IF a.even_CPR_time > 0 /\ a.odd_CPR_time > 0
                    THEN EarlierOf(a.even_CPR_time, a.odd_CPR_time) ELSE @]
  ELSE a

\* set_home_distance; Modes.home_pos is valid exactly when home_pos_ok.
set_home_distance(a) ==
  IF home_pos_ok /\ VALID_POS(a.position)
  THEN [a EXCEPT !.EST_position = Estimate(a.position, 0),
                 !.EST_seen_last =
                    IF a.even_CPR_time > 0 /\ a.odd_CPR_time > 0
                    THEN LaterOf(a.even_CPR_time, a.odd_CPR_time) ELSE @]
  ELSE a

\* The branch "Use even packet" of decode_CPR.
UseEven(a, rlat0, nl) ==
  [a EXCEPT !.position =
     [lat |-> rlat0,
      lon |-> Longitude(LonIndex(a.even_CPR_lon, a.odd_CPR_lon, nl),
                        ClampN(nl), a.even_CPR_lon)]]

\* The branch "Use odd packet" of decode_CPR.
UseOdd(a, rlat1, nl) ==
  [a EXCEPT !.position =
     [lat |-> rlat1,
      lon |-> Longitude(LonIndex(a.even_CPR_lon, a.odd_CPR_lon, nl),
                        ClampN(nl - 1), a.odd_CPR_lon)]]

\* decode_CPR from the zone check on.
DecodeInZone(a, rlat0, rlat1, nl0, nl1) ==
  IF nl0 # nl1 THEN a
  ELSE IF a.even_CPR_time > a.odd_CPR_time
       THEN set_home_distance(UseEven(a, rlat0, nl0))
       ELSE set_home_distance(UseOdd(a, rlat1, nl1))

DecodeWithLats(a, rlat0, rlat1) ==
  DecodeInZone(a, rlat0, rlat1, CPR_NL_func(rlat0), CPR_NL_func(rlat1))

DecodeWithIndex(a, j) ==
  DecodeWithLats(a, Rlat0(j, a.even_CPR_lat), Rlat1(j, a.odd_CPR_lat))

decode_CPR(a) ==
  DecodeWithIndex(a, RoundIndex(59 * a.even_CPR_lat - 60 * a.odd_CPR_lat))

\* "60*10*1000": the largest distance in time of the two fixes
CPR_MaxAge == 60 * 10 * 1000

llabs(x) == IF x < 0 THEN -x ELSE x

\* "t_diff = even_CPR_time - odd_CPR_time; if (llabs(t_diff) <= 60*10*1000)"
DecodeIfClose(a) ==
  IF llabs(a.even_CPR_time - a.odd_CPR_time) <= CPR_MaxAge
  THEN decode_CPR(a) ELSE a

\* The airborne position branch of interactive_receive_data up to t_diff.
StoreCPR(a, m, t) ==
  IF m.odd_flag # 0
  THEN [a EXCEPT !.altitude = m.altitude, !.odd_CPR_lat = m.raw_latitude,
                 !.odd_CPR_lon = m.raw_longitude, !.odd_CPR_time = t]
  ELSE [a EXCEPT !.altitude = m.altitude, !.even_CPR_lat = m.raw_latitude,
                 !.even_CPR_lon = m.raw_longitude, !.even_CPR_time = t]

IsAirbornePosition(m) ==
  (m.ME_type >= 9 /\ m.ME_type <= 18) \/ (m.ME_type >= 20 /\ m.ME_type <= 22)

\* "while (*p == ' ') *p-- = '\0';" from element [p] of the array f down.
\* Below element [0] the loop would leave the array; it stops there here.
RECURSIVE TrimFrom(_, _)
TrimFrom(f, p) ==
  IF p >= 0 /\ f[p + 1] = Space
    THEN TrimFrom([f EXCEPT ![p + 1] = 0], p - 1)
    ELSE f

\* a->flight after the memcpy of sizeof(a->flight) = 9 bytes and the loop
\* that starts at "p = a->flight + sizeof(a->flight)-1".
StoreFlight(flight) == TrimFrom(flight, Len(flight) - 1)

\* The DF17 branch of interactive_receive_data (the signal levels are not
\* part of the record here).
MergeSquitter(a, m, t) ==
  IF m.ME_type >= 1 /\ m.ME_type <= 4
    THEN [a EXCEPT !.flight = StoreFlight(m.flight)]
  ELSE IF IsAirbornePosition(m) THEN DecodeIfClose(StoreCPR(a, m, t))
  ELSE IF m.ME_type = 19 /\ m.ME_subtype \in {1, 2}
       THEN [a EXCEPT !.speed = m.velocity, !.heading = m.heading,
                      !.heading_is_valid = m.heading_is_valid]
  ELSE a

MergeByType(a, m, t) ==
  IF m.msg_type \in {0, 4, 20} THEN [a EXCEPT !.altitude = m.altitude]
  ELSE IF m.msg_type = 17 THEN MergeSquitter(a, m, t)
  ELSE a

SetIdentity(a, m) ==
  IF m.msg_type \in {5, 21} THEN [a EXCEPT !.identity = m.identity] ELSE a

\* A receive that stores the time elapsed since the previous message instead
\* of the time of this one.
Touch_Rewind(a, t) == [a EXCEPT !.seen_last = t - @, !.messages = @ + 1]

\* "a->seen_last = now; a->messages++;"
Touch(a, t) == [a EXCEPT !.seen_last = t, !.messages = @ + 1]

ReceiveInto(a, m, t) == MergeByType(SetIdentity(Touch(a, t), m), m, t)

ReceiveAt(list, i, m, t) == [list EXCEPT ![i] = ReceiveInto(@, m, t)]

ReceiveFor(list, addr, m, t) == ReceiveAt(list, aircraft_find(list, addr), m, t)

\* The list after interactive_receive_data (mm, now).
interactive_receive_data(list, m, t) ==
  IF ~m.CRC_ok THEN list
  ELSE ReceiveFor(aircraft_find_or_create(list, AddressOf(m), t),
                  AddressOf(m), m, t)

\* set_est_home_distance (a, now)
set_est_home_distance(a, t) ==
  IF ~home_pos_ok \/ a.speed = 0 \/ ~a.heading_is_valid THEN a
  ELSE IF ~VALID_POS(a.EST_position) \/ a.EST_seen_last < a.seen_last THEN a
  ELSE [a EXCEPT !.EST_position.travel = @ + a.speed * (t - a.EST_seen_last),
                 !.EST_seen_last = t]

\* A display step that never hides the plane shown for the last time.
NextShow_KeepLast(show) ==
  IF show = A_SHOW_FIRST_TIME THEN A_SHOW_NORMAL ELSE show

\* "Simple state-machine for the plane's show-state"
NextShow(show) ==
  IF show = A_SHOW_FIRST_TIME THEN A_SHOW_NORMAL
  ELSE IF show = A_SHOW_LAST_TIME THEN A_SHOW_NONE
  ELSE show

Estimated(a, t) == IF a.show # A_SHOW_NONE THEN set_est_home_distance(a, t) ELSE a

ShowRow(a, t) == [Estimated(a, t) EXCEPT !.show = NextShow(@)]

\* A display pass that goes through the whole list, whatever the number of
\* rows of the screen.
interactive_show_data_AllRows(list, t) ==
  [i \in DOMAIN list |-> ShowRow(list[i], t)]

\* The list after interactive_show_data (now): "while (a && count <
\* Modes.interactive_rows && !Modes.exit)".
interactive_show_data(list, t) ==
  [i \in DOMAIN list |->
     IF i <= interactive_rows THEN ShowRow(list[i], t) ELSE list[i]]

Fresh(a, t) == t - a.seen_last <= TTL_remove

TagStale(a, t) ==
  IF t - a.seen_last > TTL_show THEN [a EXCEPT !.show = A_SHOW_LAST_TIME] ELSE a

TagAll(list, t) == [i \in DOMAIN list |-> TagStale(list[i], t)]

\* The list after aircraft_remove_stale (now).
aircraft_remove_stale(list, t) ==
  TagAll(SelectSeq(list, LAMBDA a : Fresh(a, t)), t)

\* The messages handed to modeS_user_message, as decode_modeS_message
\* fills them; all of them passed the CRC.
UserMessage(addr, msg_type, ME_type, ME_subtype) ==
  [CRC_ok |-> TRUE,
   AA |-> <<addr \div 65536, (addr \div 256) % 256, addr % 256>>,
   msg_type |-> msg_type, ME_type |-> ME_type, ME_subtype |-> ME_subtype,
   odd_flag |-> 0, raw_latitude |-> 0, raw_longitude |-> 0,
   altitude |-> 0, identity |-> 0, flight |-> [i \in 1..9 |-> 0],
   velocity |-> 0, heading |-> 0, heading_is_valid |-> FALSE]

PositionMessage(addr, odd_flag, lat, lon) ==
  [UserMessage(addr, 17, 11, 0) EXCEPT
     !.odd_flag = odd_flag, !.raw_latitude = lat, !.raw_longitude = lon,
     !.altitude = 38000]

VelocityMessage(addr, subtype) ==
  [UserMessage(addr, 17, 19, subtype) EXCEPT
     !.velocity = 400, !.heading = 90, !.heading_is_valid = TRUE]

EvenPosition == PositionMessage(\h4840D6, 0, 93000, 51372)
OddPosition  == PositionMessage(\h4840D6, 1, 74158, 50194)
Velocity     == VelocityMessage(\h4840D6, 2)
AllCall      == UserMessage(\hAC82EC, 11, 0, 0)

UserMessages == {EvenPosition, OddPosition, Velocity, AllCall}

\* The message types modeS_send_SBS_output has a line for.
HasSBSLine(m) ==
  \/ m.msg_type \in {0, 4, 5, 11, 21}
  \/ m.msg_type = 17 /\ m.ME_type = 4
  \/ m.msg_type = 17 /\ m.ME_type >= 9 /\ m.ME_type <= 18
  \/ m.msg_type = 17 /\ m.ME_type = 19 /\ m.ME_subtype = 1

\* handler_sending: modeS_init_net sets up the listening services to send
handler_sending(service) == service \in Services

\* connection_send: one mg_send for each connection of the service
connection_send(service, m) ==
  IF connections[service] > 0
  THEN <<[service |-> service, addr |-> AddressOf(m),
          readers |-> connections[service]]>>
  ELSE <<>>

modeS_send_SBS_output(m) ==
  IF HasSBSLine(m) THEN connection_send(MODES_NET_SERVICE_SBS_OUT, m) ELSE <<>>

modeS_send_raw_output(m) ==
  IF handler_sending(MODES_NET_SERVICE_RAW_OUT)
  THEN connection_send(MODES_NET_SERVICE_RAW_OUT, m) ELSE <<>>

\* Tracking regardless of the mode and of the clients.
TrackingWanted_Always == TRUE

\* "if (Modes.interactive || num_clients > 0)"
TrackingWanted ==
  \/ interactive
  \/ cli_accepted[MODES_NET_SERVICE_HTTP] + cli_accepted[MODES_NET_SERVICE_SBS_OUT] > 0

\* interactive_receive_data returned a record
Tracked(m) == TrackingWanted /\ m.CRC_ok

SBSPart(m) ==
  IF Tracked(m) /\ cli_accepted[MODES_NET_SERVICE_SBS_OUT] > 0
  THEN modeS_send_SBS_output(m) ELSE <<>>

RawPart(m) == IF net THEN modeS_send_raw_output(m) ELSE <<>>

\* modeS_user_message (mm)
modeS_user_message(m) ==
  /\ messages_total < MaxMessages
  /\ messages_total' = messages_total + 1
  /\ aircrafts' = IF TrackingWanted
                  THEN interactive_receive_data(aircrafts, m, msec)
                  ELSE aircrafts
  /\ sent' = SBSPart(m) \o RawPart(m)
  /\ UNCHANGED <<msec, last_update_ms, interactive, net, home_pos_ok,
                 connections, cli_accepted>>
  /\ UNCHANGED <<rxVars, decVars, conVars, fixVars, runVars, scanVars, inVars>>

ReceiveMessage == \E m \in UserMessages : modeS_user_message(m)

\* A background pass that refreshes the screen without aircraft_remove_stale.
Maintained_ShowOnly(list, t) ==
  IF interactive THEN interactive_show_data(list, t) ELSE list

Maintained(list, t) ==
  IF interactive
  THEN interactive_show_data(aircraft_remove_stale(list, t), t)
  ELSE aircraft_remove_stale(list, t)

\* background_tasks, when the refresh is due (it returns at once when not)
background_tasks ==
  /\ ~Modes_exit
  /\ msec - last_update_ms >= MODES_INTERACTIVE_REFRESH_TIME
  /\ last_update_ms' = msec
  /\ aircrafts' = Maintained(aircrafts, msec)
  /\ UNCHANGED <<msec, interactive, net, home_pos_ok, connections,
                 cli_accepted, messages_total, sent>>
  /\ UNCHANGED <<rxVars, decVars, conVars, fixVars, runVars, scanVars, inVars>>

\* MG_EV_ACCEPT in connection_handler
Accept(service) ==
  /\ net
  /\ cli_accepted[service] < MaxAccepted
  /\ connections' = [connections EXCEPT ![service] = @ + 1]
  /\ cli_accepted' = [cli_accepted EXCEPT ![service] = @ + 1]
  /\ UNCHANGED <<aircrafts, msec, last_update_ms, interactive, net,
                 home_pos_ok, messages_total, sent>>
  /\ UNCHANGED <<rxVars, decVars, conVars, fixVars, runVars, scanVars, inVars>>

AcceptClient == \E service \in Services : Accept(service)

\* MG_EV_CLOSE in connection_handler: connection_free
Close(service) ==
  /\ net
  /\ connections[service] > 0
  /\ connections' = [connections EXCEPT ![service] = @ - 1]
  /\ UNCHANGED <<aircrafts, msec, last_update_ms, interactive, net,
                 home_pos_ok, cli_accepted, messages_total, sent>>
  /\ UNCHANGED <<rxVars, decVars, conVars, fixVars, runVars, scanVars, inVars>>

CloseClient == \E service \in Services : Close(service)

\* The steps of the tick-time between two readings of it.
TickSteps == {MODES_INTERACTIVE_REFRESH_TIME, TTL_show + 1}

\* The values the tick-time takes within MaxTicks steps.
RECURSIVE TickTimes(_)
TickTimes(n) ==
  IF n = 0 THEN {0}
  ELSE TickTimes(n - 1) \cup {t + step : t \in TickTimes(n - 1), step \in TickSteps}

ClockValues == TickTimes(MaxTicks)

Tick(step) ==
  /\ msec + step \in ClockValues
  /\ msec' = msec + step
  /\ UNCHANGED <<aircrafts, last_update_ms, interactive, net, home_pos_ok,
                 connections, cli_accepted, messages_total, sent>>
  /\ UNCHANGED <<rxVars, decVars, conVars, fixVars, runVars, scanVars, inVars>>

AdvanceClock == \E step \in TickSteps : Tick(step)

InitTrack ==
  /\ aircrafts = <<>>
  /\ msec = 0
  /\ last_update_ms = 0
  /\ interactive \in BOOLEAN
  /\ net \in BOOLEAN
  /\ home_pos_ok \in BOOLEAN
  /\ connections = [s \in Services |-> 0]
  /\ cli_accepted = [s \in Services |-> 0]
  /\ messages_total = 0
  /\ sent = <<>>

NextTrack ==
  \/ ReceiveMessage
  \/ background_tasks
  \/ AdvanceClock

NextNet ==
  \/ ReceiveMessage
  \/ AcceptClient
  \/ CloseClient

(***************************************************************************)
(* Properties of the tracker and of the fan-out.                           *)
(***************************************************************************)

RecordOf(list, addr) == list[aircraft_find(list, addr)]

\* A call of modeS_user_message, a maintenance pass.
UserMessageStep == messages_total' = messages_total + 1
PassStep        == last_update_ms' # last_update_ms

PositionBefore(addr) ==
  IF HasAircraft(aircrafts, addr) THEN RecordOf(aircrafts, addr).position
  ELSE ZeroPos

\* The record holds the fix of a position message that was handed in.
FixReceived(a, odd_flag) ==
  \E m \in UserMessages :
    /\ m.msg_type = 17 /\ IsAirbornePosition(m)
    /\ AddressOf(m) = a.addr
    /\ m.odd_flag = odd_flag
    /\ IF odd_flag = 1
       THEN m.raw_latitude = a.odd_CPR_lat /\ m.raw_longitude = a.odd_CPR_lon
       ELSE m.raw_latitude = a.even_CPR_lat /\ m.raw_longitude = a.even_CPR_lon

ZonesOfIndex(a, j) ==
  CPR_NL_func(Rlat0(j, a.even_CPR_lat)) = CPR_NL_func(Rlat1(j, a.odd_CPR_lat))

ZonesAgree(a) ==
  ZonesOfIndex(a, RoundIndex(59 * a.even_CPR_lat - 60 * a.odd_CPR_lat))

PairDecodable(a) ==
  /\ FixReceived(a, 0)
  /\ FixReceived(a, 1)
  /\ llabs(a.even_CPR_time - a.odd_CPR_time) <= CPR_MaxAge
  /\ ZonesAgree(a)

\* C3: a step sets or changes the position of a record only if the record
\* then holds an even and an odd fix that were both received, taken at most
\* 10 minutes apart, whose latitudes give the same NL.
C3_PositionOnlyFromReceivedPair ==
  [][\A i \in DOMAIN aircrafts' :
       aircrafts'[i].position # PositionBefore(aircrafts'[i].addr)
         => PairDecodable(aircrafts'[i])]_vars

\* C4: no two records of the aircraft list have the same ICAO address.
C4_OneRecordPerAddress ==
  \A i, j \in DOMAIN aircrafts :
    aircrafts[i].addr = aircrafts[j].addr => i = j

\* Two aircraft are tracked, one of them was found again by a later message,
\* and a maintenance pass has run.
C4_Witness ==
  /\ Len(aircrafts) = 2
  /\ \E i \in DOMAIN aircrafts : aircrafts[i].messages >= 2
  /\ last_update_ms > 0

MessagesBefore(addr) ==
  IF HasAircraft(aircrafts, addr) THEN RecordOf(aircrafts, addr).messages ELSE 0

\* The step applied a message of this address to the tracker.
AppliedNow(addr) ==
  /\ HasAircraft(aircrafts', addr)
  /\ RecordOf(aircrafts', addr).seen_last = msec
  /\ RecordOf(aircrafts', addr).messages = MessagesBefore(addr) + 1

TrackerInUse ==
  \/ interactive
  \/ cli_accepted[MODES_NET_SERVICE_HTTP] > 0
  \/ cli_accepted[MODES_NET_SERVICE_SBS_OUT] > 0

SendRule(s) ==
  IF s.service = MODES_NET_SERVICE_SBS_OUT THEN AppliedNow(s.addr)
  ELSE AppliedNow(s.addr) <=> TrackerInUse

C9_TimestampsOrdered ==
  \A i \in DOMAIN aircrafts :
    /\ aircrafts[i].seen_first <= aircrafts[i].seen_last
    /\ aircrafts[i].EST_position.travel > 0
         => aircrafts[i].seen_last <= aircrafts[i].EST_seen_last

\* The step wrote EST_seen_last of this record.
EstimateWritten(a) ==
  /\ HasAircraft(aircrafts, a.addr)
  /\ a.EST_seen_last # RecordOf(aircrafts, a.addr).EST_seen_last

\* C9 (amended): after every step seen_first <= seen_last in every record,
\* and a step that writes EST_seen_last (a position decode or a projected
\* estimate) leaves seen_last <= EST_seen_last in that record.
C9_OrderedWhenEstimateWritten ==
  [][\A i \in DOMAIN aircrafts' :
       /\ aircrafts'[i].seen_first <= aircrafts'[i].seen_last
       /\ EstimateWritten(aircrafts'[i])
            => aircrafts'[i].seen_last <= aircrafts'[i].EST_seen_last]_vars

\* An estimate was projected after the last message of the aircraft.
C9_Witness ==
  \E i \in DOMAIN aircrafts :
    /\ aircrafts[i].EST_position.travel > 0
    /\ aircrafts[i].seen_first < aircrafts[i].seen_last
    /\ aircrafts[i].seen_last < aircrafts[i].EST_seen_last

WasLastTime(a) == a.show \in {A_SHOW_LAST_TIME, A_SHOW_NONE}

ShowAfterTag(addr) ==
  IF interactive /\ aircraft_find(aircrafts', addr) <= interactive_rows
  THEN A_SHOW_NONE ELSE A_SHOW_LAST_TIME

PassRule(a, age) ==
  IF age > TTL_remove THEN ~HasAircraft(aircrafts', a.addr)
  ELSE /\ HasAircraft(aircrafts', a.addr)
       /\ age > TTL_show => RecordOf(aircrafts', a.addr).show = ShowAfterTag(a.addr)

C11_NoStaleRecordAfterPass ==
  [][PassStep =>
       \A i \in DOMAIN aircrafts' :
         msec - aircrafts'[i].seen_last <= TTL_remove]_vars

\* A pass has just run and emptied a list that held an aircraft.
C11_Witness ==
  /\ messages_total > 0
  /\ last_update_ms = msec
  /\ aircrafts = <<>>

\* C22: seen_last of an aircraft never decreases from one receive call for
\* the aircraft to the next.
C22_SeenLastNonDecreasing ==
  [][UserMessageStep =>
       \A i \in DOMAIN aircrafts : \A k \in DOMAIN aircrafts' :
         aircrafts'[k].addr = aircrafts[i].addr =>
           aircrafts'[k].seen_last >= aircrafts[i].seen_last]_vars

\* An aircraft has received a second message later than its first one.
C22_Witness ==
  \E i \in DOMAIN aircrafts :
    /\ aircrafts[i].messages >= 2
    /\ aircrafts[i].seen_last > aircrafts[i].seen_first

\* The show-state aircraft_remove_stale leaves in a record that it keeps.
TaggedShow(a) ==
  IF msec - a.seen_last > TTL_show THEN A_SHOW_LAST_TIME ELSE a.show

\* The show-state after the display pass of a record that the loop reached.
MovedShow(show) ==
  CASE show = A_SHOW_FIRST_TIME -> A_SHOW_NORMAL
    [] show = A_SHOW_LAST_TIME  -> A_SHOW_NONE
    [] OTHER -> show

\* Every record that was "first time" or "last time" was moved on.
AllMoved(list) ==
  \A i \in DOMAIN list :
    list[i].show \notin {A_SHOW_FIRST_TIME, A_SHOW_LAST_TIME}

\* Every hidden record that is kept is still hidden.
HiddenStays(before, after) ==
  \A i \in DOMAIN before :
    (before[i].show = A_SHOW_NONE /\ HasAircraft(after, before[i].addr))
      => RecordOf(after, before[i].addr).show = A_SHOW_NONE

MODES_NET_SERVICE_RAW_IN == "RAW_IN"
MODES_NET_SERVICE_SBS_IN == "SBS_IN"

\* The services modeS_init_net connects for when Modes.net_active is set.
ActiveServices == {MODES_NET_SERVICE_RAW_IN, MODES_NET_SERVICE_SBS_IN}

\* The timeout of mg_mgr_poll in background_tasks, in milliseconds.
MG_NET_POLL_TIME == 125

MODES_CONNECT_TIMEOUT == TimeoutPolls * MG_NET_POLL_TIME

\* The timer mg_timer_add allocates for a service, and the member `timer`
\* of the service's entry of modeS_net_services.
AllocatedTimer(service) == <<"mg_timer_add", service>>
ServiceTimer(service) == <<"modeS_net_services.timer", service>>

mg_timer_add(list, t, service) ==
  list \cup {[timer |-> AllocatedTimer(service), service |-> service,
              expire |-> t + MODES_CONNECT_TIMEOUT]}

mg_timer_free(list, timer) == {x \in list : x.timer # timer}

\* connection_setup with listen == false for every service with a host:
\* the timer is armed and its handle dropped, then mg_connect is called.
connection_setup(h) ==
  /\ active_conn = [s \in ActiveServices |->
                      IF h[s] THEN "connecting" ELSE "none"]
  /\ timers = {x \in UNION {mg_timer_add({}, 0, s) : s \in ActiveServices} :
                 h[x.service]}

\* modeS_init_net with Modes.net_active: at least one host is needed.
InitCon ==
  /\ host \in {h \in [ActiveServices -> BOOLEAN] :
                 \E s \in ActiveServices : h[s]}
  /\ connection_setup(host)
  /\ num_connections = [s \in ActiveServices |-> 0]
  /\ mg_ms = 0
  /\ last_err = [s \in ActiveServices |-> "NULL"]

\* Without --net-active no service is connected for and no timer is armed.
ConParked ==
  /\ host = [s \in ActiveServices |-> FALSE]
  /\ connection_setup(host)
  /\ num_connections = [s \in ActiveServices |-> 0]
  /\ mg_ms = 0
  /\ last_err = [s \in ActiveServices |-> "NULL"]

rxRest == <<data, data_ready, data_mutex, max_messages, rx_pc, batches,
            main_pc, magnitude, mag_i, scan_j, scans, demodulated>>

\* connection_handler, MG_EV_CONNECT, after "if (Modes.exit) return;":
\* mg_timer_free is given the service's own `timer` member.
EvConnect(service) ==
  /\ ~Modes_exit
  /\ active_conn[service] = "connecting"
  /\ timers' = mg_timer_free(timers, ServiceTimer(service))
  /\ active_conn' = [active_conn EXCEPT ![service] = "connected"]
  /\ num_connections' = [num_connections EXCEPT ![service] = @ + 1]
  /\ UNCHANGED <<host, mg_ms, last_err>>
  /\ UNCHANGED <<rxVars, decVars, trkVars, fixVars, runVars, scanVars, inVars>>

\* connection_handler, MG_EV_ERROR, on a connection that is being made or
\* was made: with a host for the service, handler_store_error and
\* signal_handler (0).  Mongoose closes the connection afterwards.
EvError(service) ==
  /\ ~Modes_exit
  /\ active_conn[service] \in {"connecting", "connected"}
  /\ active_conn' = [active_conn EXCEPT ![service] = "closing"]
  /\ IF host[service]
       THEN /\ last_err' = [last_err EXCEPT ![service] = "failed"]
            /\ Modes_exit' = TRUE
       ELSE UNCHANGED <<last_err, Modes_exit>>
  /\ UNCHANGED <<host, num_connections, timers, mg_ms>>
  /\ UNCHANGED <<rxRest, decVars, trkVars, fixVars, runVars, scanVars, inVars>>

\* connection_handler, MG_EV_CLOSE, when the peer closes a connection that
\* was made: connection_free and "-- (*handler_num_connections (service))".
EvClose(service) ==
  /\ ~Modes_exit
  /\ active_conn[service] = "connected"
  /\ active_conn' = [active_conn EXCEPT ![service] = "closed"]
  /\ num_connections' = [num_connections EXCEPT ![service] = @ - 1]
  /\ UNCHANGED <<host, timers, mg_ms, last_err>>
  /\ UNCHANGED <<rxVars, decVars, trkVars, fixVars, runVars, scanVars, inVars>>

\* The timers of the list whose period has passed at time t.
Expired(list, t) == {x \in list : x.expire <= t}

\* connection_timeout for every expired timer: handler_store_error.
StoreTimeouts(list, t) ==
  [s \in ActiveServices |->
     IF \E x \in Expired(list, t) : x.service = s
       THEN "timeout" ELSE last_err[s]]

\* One mg_mgr_poll of background_tasks in an iteration of main_data_loop
\* that found Modes.exit clear: MG_NET_POLL_TIME passes and the expired
\* timers are called; connection_timeout ends with signal_handler (0).
PollTimers ==
  /\ ~Modes_exit
  /\ mg_ms < MaxPolls * MG_NET_POLL_TIME
  /\ mg_ms' = mg_ms + MG_NET_POLL_TIME
  /\ timers' = timers \ Expired(timers, mg_ms')
  /\ last_err' = StoreTimeouts(timers, mg_ms')
  /\ Modes_exit' = (Expired(timers, mg_ms') # {})
  /\ UNCHANGED <<host, active_conn, num_connections>>
  /\ UNCHANGED <<rxRest, decVars, trkVars, fixVars, runVars, scanVars, inVars>>

Connected == \E service \in ActiveServices : EvConnect(service)
Failed    == \E service \in ActiveServices : EvError(service)
Closed    == \E service \in ActiveServices : EvClose(service)

NextCon ==
  \/ Connected
  \/ Failed
  \/ Closed
  \/ PollTimers
  \/ SignalHandler

\* C14: connection_timeout ends the consumer loop for a service exactly
\* when its connect has not completed within the timeout: it is never called
\* for a service whose connect has completed.
C14_TimeoutOnlyWhileConnecting ==
  \A s \in ActiveServices :
    last_err[s] = "timeout" => active_conn[s] = "connecting"

\* C15: an error event on a connection never sets the shutdown flag.
C15_ErrorKeepsRunning ==
  [][\A s \in ActiveServices : EvError(s) => ~Modes_exit']_vars

(***************************************************************************)
(* Part 5.  The error correction on its own: a frame is transmitted, the   *)
(* channel flips bits of it, and fix_single_bit_errors, modeS_checksum or   *)
(* decode_modeS_message with the statistics of detect_modeS are applied.    *)
(***************************************************************************)

\* The DF11 of scenario S2 of the specification: 5D A0 8C 4A 20 4C C3.
DF11_S2 ==
  <<\h5D, \hA0, \h8C, \h4A, \h20, \h4C, \hC3, \h00, \h00, \h00, \h00, \h00, \h00, \h00>>

\* The length of the frame m by its Downlink Format.
BitsOf(m) == modeS_message_len_by_type(m[1] \div 8)

\* The frames the functions are applied to: long and short ones, with a
\* trailer that matches the checksum and with one that does not.
FixFrames == {DF17_Valid, DF11_A08C4A, DF11_S2, DF20_AC82EC}

\* "mm->CRC == crc2" holds for the frame as transmitted.
ValidFrames == {m \in FixFrames : CrcMatches(m, BitsOf(m))}

\* The frames handed to the decoder, and the bits the channel may flip of
\* them: bits of the DF field, of the rest of the frame and the last one.
DetFrames == {DF17_Valid, DF11_A08C4A}
PairBits == {0, 4, 5, 6, 7, 8, 9, 111}

NoStat ==
  [demodulated |-> 0, good_CRC |-> 0, bad_CRC |-> 0, fixed |-> 0,
   single_bit_fix |-> 0, two_bits_fix |-> 0]

FrameStarts(frames) ==
  /\ fx_frame \in frames
  /\ fx_flips = {}
  /\ fx_msg = fx_frame
  /\ fx_rets = <<>>
  /\ fx_written = FALSE
  /\ stat = NoStat

InitFix == FrameStarts(FixFrames)
InitDet == FrameStarts(DetFrames)
FixParked == FrameStarts({DF17_Valid})

\* The channel flips bit i of the frame before anything was applied to it.
Flip(i) ==
  /\ fx_rets = <<>>
  /\ ~fx_written
  /\ mm = NoMessage
  /\ i \notin fx_flips
  /\ i < BitsOf(fx_frame)
  /\ fx_flips' = fx_flips \cup {i}
  /\ fx_msg' = FlipBit(fx_msg, i)
  /\ UNCHANGED <<fx_frame, fx_rets, fx_written, stat>>
  /\ UNCHANGED <<rxVars, decVars, trkVars, conVars, runVars, scanVars, inVars>>

OneBitError ==
  /\ fx_flips = {}
  /\ \E i \in 0..(MODES_LONG_MSG_BITS - 1) : Flip(i)

PairBitError ==
  /\ Cardinality(fx_flips) < 2
  /\ \E i \in PairBits : Flip(i)

\* The caller's buffer and the value returned after a call that gave r.
Returned(r) ==
  /\ fx_msg' = r.msg
  /\ fx_rets' = Append(fx_rets, r.error_bit)

\* One call fix_single_bit_errors (msg, bits) on the buffer.
FixSingle ==
  /\ Len(fx_rets) < MaxCalls
  /\ ~fx_written
  /\ Returned(fix_single_bit_errors(fx_msg, BitsOf(fx_frame)))
  /\ UNCHANGED <<fx_frame, fx_flips, fx_written, stat>>
  /\ UNCHANGED <<rxVars, decVars, trkVars, conVars, runVars, scanVars, inVars>>

\* The trailer written low byte first.
WithTrailingCRC_LowFirst(msg, bits, crc) ==
  [msg EXCEPT ![(bits \div 8) - 2] = crc % 256,
              ![(bits \div 8) - 1] = (crc \div 256) % 256,
              ![bits \div 8] = crc \div 65536]

\* msg with crc in its last three bytes, the place decode_modeS_message
\* reads mm->CRC from.
WithTrailingCRC(msg, bits, crc) ==
  [msg EXCEPT ![(bits \div 8) - 2] = crc \div 65536,
              ![(bits \div 8) - 1] = (crc \div 256) % 256,
              ![bits \div 8] = crc % 256]

\* modeS_checksum over the buffer, written into its trailing 24 bits.
WriteChecksum ==
  /\ fx_rets = <<>>
  /\ ~fx_written
  /\ fx_written' = TRUE
  /\ fx_msg' = WithTrailingCRC(fx_msg, BitsOf(fx_frame),
                               modeS_checksum(fx_msg, BitsOf(fx_frame)))
  /\ UNCHANGED <<fx_frame, fx_flips, fx_rets, stat>>
  /\ UNCHANGED <<rxVars, decVars, trkVars, conVars, runVars, scanVars, inVars>>

\* detect_modeS, "Update statistics", for a message sliced without errors.
UpdateStat(st, m, retried) ==
  IF ~(m.CRC_ok \/ retried) THEN st
  ELSE IF m.error_bit = -1
    THEN IF m.CRC_ok
           THEN [st EXCEPT !.demodulated = @ + 1, !.good_CRC = @ + 1]
           ELSE [st EXCEPT !.demodulated = @ + 1, !.bad_CRC = @ + 1]
    ELSE IF m.error_bit < MODES_LONG_MSG_BITS
           THEN [st EXCEPT !.demodulated = @ + 1, !.bad_CRC = @ + 1,
                           !.fixed = @ + 1, !.single_bit_fix = @ + 1]
           ELSE [st EXCEPT !.demodulated = @ + 1, !.bad_CRC = @ + 1,
                           !.fixed = @ + 1, !.two_bits_fix = @ + 1]

\* The caller of decode_modeS_message after it returned r.
Counted(r, retried) ==
  /\ Decoded(r)
  /\ stat' = UpdateStat(stat, r.mm, retried)

\* detect_modeS hands the buffer to decode_modeS_message and counts it.
DetectFrame(retried) ==
  /\ mm = NoMessage
  /\ Counted(CheckAddress(DecodeFields(CheckCRC(fx_msg, aggressive))),
             retried)
  /\ UNCHANGED <<now, aggressive>>
  /\ UNCHANGED <<fx_frame, fx_flips, fx_msg, fx_rets, fx_written>>
  /\ UNCHANGED <<rxVars, trkVars, conVars, runVars, scanVars, inVars>>

Detect == \E retried \in BOOLEAN : DetectFrame(retried)

NextFix == OneBitError \/ FixSingle \/ WriteChecksum

NextDet == PairBitError \/ Detect

\* A call of fix_single_bit_errors that follows a call which returned an
\* index.
SecondCall ==
  /\ Len(fx_rets') = Len(fx_rets) + 1
  /\ Len(fx_rets) >= 1
  /\ fx_rets[Len(fx_rets)] >= 0

\* C16: when a call of fix_single_bit_errors returned an index >= 0, a second
\* call on the resulting message returns the same index and changes the
\* message no further.
C16_SecondCallSameIndex ==
  [][SecondCall =>
       /\ fx_rets'[Len(fx_rets')] = fx_rets[Len(fx_rets)]
       /\ fx_msg' = fx_msg]_vars

\* C16, amended: the message a successful call leaves passes the CRC check,
\* and a second call on it returns -1 and changes the message no further.
C16_SecondCallFindsNothing ==
  [][SecondCall =>
       /\ CrcMatches(fx_msg, BitsOf(fx_frame))
       /\ fx_rets'[Len(fx_rets')] = -1
       /\ fx_msg' = fx_msg]_vars

\* Bit 40 of the DF17 was flipped and repaired, and the second call is done.
C16_Witness ==
  /\ fx_frame = DF17_Valid
  /\ fx_flips = {40}
  /\ fx_rets = <<40, -1>>
  /\ fx_msg = DF17_Valid

\* The frame f lost exactly one bit and fix_single_bit_errors was called:
\* the first call returned that bit and left the frame as transmitted.
Repaired(f) ==
  (fx_frame = f /\ Cardinality(fx_flips) = 1 /\ fx_rets # <<>>) =>
    /\ fx_flips = {fx_rets[1]}
    /\ Len(fx_rets) = 1 => fx_msg = f

\* C17: for every CRC-valid frame and every bit i of it, flipping bit i and
\* calling fix_single_bit_errors returns i and restores the frame; the DF11
\* 5D A0 8C 4A 20 4C C3 of scenario S2 is such a frame.
C17_RepairsEveryBitAndS2 ==
  \A f \in ValidFrames \cup {DF11_S2} : Repaired(f)

\* C17, amended: the same for the frames whose trailer equals
\* modeS_checksum, which the DF11 of S2 is not.
C17_RepairsEveryBit ==
  /\ DF11_S2 \notin ValidFrames
  /\ \A f \in ValidFrames : Repaired(f)

\* Bit 10 of the DF11 5D A0 8C 4A 79 3A A5 was flipped and repaired.
C17_Witness ==
  /\ fx_frame = DF11_A08C4A
  /\ fx_flips = {10}
  /\ fx_rets = <<10>>
  /\ fx_msg = DF11_A08C4A

\* C18: a frame whose trailing 24 bits were overwritten with modeS_checksum
\* of the frame passes the CRC check, whatever the trailer was before.
C18_ChecksumInTrailerPasses ==
  fx_written => CrcMatches(fx_msg, BitsOf(fx_frame))

\* The checksum was written into a frame whose trailer did not match.
C18_Witness ==
  /\ fx_written
  /\ fx_frame = DF20_AC82EC
  /\ fx_flips = {}
  /\ fx_msg # fx_frame

\* A valid DF17 with exactly two bits flipped went through the decoder.
TwoFlippedDecoded ==
  /\ fx_frame = DF17_Valid
  /\ Cardinality(fx_flips) = 2
  /\ mm # NoMessage

\* What the claim says of such a frame: CRC failure without aggressive mode,
\* CRC-OK and one two-bit fix counted with it.
TwoBitOutcome ==
  IF aggressive
    THEN mm.CRC_ok /\ stat.two_bits_fix = 1 /\ mm.msg = DF17_Valid
    ELSE ~mm.CRC_ok /\ stat.two_bits_fix = 0

\* The decoder's two-bit correction was applied only to a DF17 in aggressive
\* mode.
TwoBitOnlyAggressiveDF17 ==
  (mm.error_bit >= MODES_LONG_MSG_BITS \/ stat.two_bits_fix > 0) =>
    /\ aggressive
    /\ mm.msg_type = 17
    /\ stat.two_bits_fix = 1

\* C19: a valid DF17 with exactly two bits flipped is CRC-fail without
\* aggressive mode and CRC-OK with the two-bit-fix counter at one with it;
\* the two-bit correction is only applied to DF17 in aggressive mode.
C19_TwoBitFixedWhenAggressive ==
  /\ TwoFlippedDecoded => TwoBitOutcome
  /\ TwoBitOnlyAggressiveDF17

\* The first five bits of a frame: its Downlink Format.
DFBits == 0..4

\* C19, amended: the same when both flipped bits lie outside the DF field; a
\* frame with a flipped DF bit is not taken for a DF17 and is CRC-fail in
\* either mode.
C19_TwoBitFixedOutsideDF ==
  /\ (TwoFlippedDecoded /\ fx_flips \cap DFBits = {}) => TwoBitOutcome
  /\ (TwoFlippedDecoded /\ fx_flips \cap DFBits # {}) =>
       ~mm.CRC_ok /\ stat.two_bits_fix = 0
  /\ TwoBitOnlyAggressiveDF17

\* Bits 7 and 111 were flipped and the decoder repaired them in aggressive
\* mode.
C19_Witness ==
  /\ TwoFlippedDecoded
  /\ fx_flips = {7, 111}
  /\ aggressive
  /\ mm.error_bit = 7 + 256 * 111
  /\ stat.two_bits_fix = 1

\* A DF19 (military extended squitter) with a valid CRC; it differs from a
\* DF17 in bit 3 only.
DF19_Valid ==
  <<\h9D, \h48, \h40, \hD6, \h20, \h2C, \hC3, \h71, \hC3, \h2C, \hE0, \h2F, \hBB, \h27>>

\* Frames with a valid CRC that the channel flips one bit of before the
\* decoder gets them.
TypeFrames == {DF17_Valid, DF11_A08C4A, DF19_Valid}

InitType == FrameStarts(TypeFrames)

NextType == OneBitError \/ Detect

\* C26: for every message the decoder reports CRC-OK, error-corrected ones
\* included, msg_type is the Downlink Format of the stored bytes,
\* msg[0] >> 3, and the recorded bit length is the length of that format.
C26_TypeOfStoredBytes ==
  (mm # NoMessage /\ mm.CRC_ok) =>
    /\ mm.msg_type = mm.msg[1] \div 8
    /\ mm.msg_bits = modeS_message_len_by_type(mm.msg[1] \div 8)

(***************************************************************************)
(* Part 6.  From the frame to the tracker: detect_modeS decodes a frame    *)
(* and hands the message to modeS_user_message, which in interactive mode   *)
(* gives it to interactive_receive_data.                                   *)
(***************************************************************************)

\* The first 11 bytes of a DF17 of 4840D6 with the given ME type, CPR format
\* bit and CPR latitude and longitude, and three bytes for the parity.
SquitterBody(ME_type, F, lat, lon) ==
  <<\h8D, \h48, \h40, \hD6, ME_type * 8, \hC3,
    \h80 + 4 * F + (lat \div 32768), (lat \div 128) % 256,
    (lat % 128) * 2 + (lon \div 65536), (lon \div 256) % 256, lon % 256,
    0, 0, 0>>

SquitterFrame(ME_type, F, lat, lon) ==
  WithTrailingCRC(SquitterBody(ME_type, F, lat, lon), MODES_LONG_MSG_BITS,
                  modeS_checksum(SquitterBody(ME_type, F, lat, lon),
                                 MODES_LONG_MSG_BITS))

\* ME types with a position (barometric, GNSS height) and without one.
SquitterTypes == {4, 9, 18, 20, 22, 23}

\* The CPR values of the frames: those of scenario S3 and the largest ones.
SquitterFixes == {<<93000, 51372>>, <<74158, 50194>>, <<131071, 131071>>}

SquitterFrames ==
  {SquitterFrame(t, F, p[1], p[2]) :
     t \in SquitterTypes, F \in {0, 1}, p \in SquitterFixes}

\* The first 11 bytes of a DF17 Aircraft Identification message of 4840D6
\* with the eight 6-bit characters cs, and three bytes for the parity.
IdentBody(ME_type, cs) ==
  <<\h8D, \h48, \h40, \hD6, ME_type * 8,
    cs[1] * 4 + (cs[2] \div 16), (cs[2] % 16) * 16 + (cs[3] \div 4),
    (cs[3] % 4) * 64 + cs[4],
    cs[5] * 4 + (cs[6] \div 16), (cs[6] % 16) * 16 + (cs[7] \div 4),
    (cs[7] % 4) * 64 + cs[8],
    0, 0, 0>>

IdentFrame(ME_type, cs) ==
  WithTrailingCRC(IdentBody(ME_type, cs), MODES_LONG_MSG_BITS,
                  modeS_checksum(IdentBody(ME_type, cs), MODES_LONG_MSG_BITS))

\* The callsigns "KLM1023 ", "N123    " and "SAS4567X" in the 6-bit code.
Callsigns ==
  { <<11, 12, 13, 49, 48, 50, 51, 32>>,
    <<14, 49, 50, 51, 32, 32, 32, 32>>,
    <<19, 1, 19, 52, 53, 54, 55, 24>> }

IdentFrames == {IdentFrame(4, cs) : cs \in Callsigns}

\* The message as modeS_user_message and the tracker read it.  The fields
\* whose decoding is not part of this model are as memset left them.
TrackerView(m) ==
  [CRC_ok |-> m.CRC_ok, AA |-> m.AA, msg_type |-> m.msg_type,
   ME_type |-> m.ME_type, ME_subtype |-> m.ME_subtype,
   odd_flag |-> m.odd_flag, raw_latitude |-> m.raw_latitude,
   raw_longitude |-> m.raw_longitude, flight |-> m.flight,
   altitude |-> m.altitude, identity |-> 0,
   velocity |-> 0, heading |-> 0, heading_is_valid |-> FALSE]

\* "if (mm.CRC_ok) modeS_user_message (&mm);" with the message v.
PassedOn(v) ==
  IF v.CRC_ok
    THEN /\ messages_total' = messages_total + 1
         /\ aircrafts' = IF TrackingWanted
                           THEN interactive_receive_data(aircrafts, v, msec)
                           ELSE aircrafts
         /\ sent' = SBSPart(v) \o RawPart(v)
    ELSE UNCHANGED <<messages_total, aircrafts, sent>>

\* detect_modeS with the demodulated frame f: decode_modeS_message, then
\* modeS_user_message.
DetectSquitter(f) ==
  /\ messages_total < MaxFrames
  /\ fx_frame' = f
  /\ fx_msg' = f
  /\ Decoded(CheckAddress(DecodeFields(CheckCRC(f, aggressive))))
  /\ PassedOn(TrackerView(mm'))
  /\ UNCHANGED <<now, aggressive>>
  /\ UNCHANGED <<msec, last_update_ms, interactive, net, home_pos_ok,
                 connections, cli_accepted>>
  /\ UNCHANGED <<fx_flips, fx_rets, fx_written, stat>>
  /\ UNCHANGED <<rxVars, conVars, runVars, scanVars, inVars>>

NextPos == \E f \in SquitterFrames \cup IdentFrames : DetectSquitter(f)

\* What bytes 6..10 of the frame f carry (msg[6] .. msg[10] in the source).
FrameOdd(f) == (f[7] \div 4) % 2
FrameLat(f) == (f[7] % 4) * 32768 + f[8] * 128 + (f[9] \div 2)
FrameLon(f) == (f[9] % 2) * 65536 + f[10] * 256 + f[11]

\* The fix of the frame's format in the record a is the one f carries.
FixStored(a, f) ==
  IF FrameOdd(f) = 1
    THEN a.odd_CPR_lat = FrameLat(f) /\ a.odd_CPR_lon = FrameLon(f)
    ELSE a.even_CPR_lat = FrameLat(f) /\ a.even_CPR_lon = FrameLon(f)

\* C20: for a DF17 frame with ME type 9..18 or 20..22 the parser takes the
\* format bit and the CPR latitude and longitude from bytes 6..10, and the
\* odd or even fix the tracker stores for the message is the frame's.
C20_TrackerStoresFrameFix ==
  (mm # NoMessage /\ IsAirbornePosition([ME_type |-> fx_frame[5] \div 8])) =>
    /\ (mm.odd_flag # 0) = (FrameOdd(fx_frame) = 1)
    /\ mm.raw_latitude = FrameLat(fx_frame)
    /\ mm.raw_longitude = FrameLon(fx_frame)
    /\ FixStored(aircrafts[aircraft_find(aircrafts, AddressOf(mm))], fx_frame)

\* The characters of the array f before its first NUL: the C string.
RECURSIVE CString(_)
CString(f) ==
  IF f = <<>> \/ Head(f) = 0 THEN <<>> ELSE <<Head(f)>> \o CString(Tail(f))

\* The string without the spaces at its end.
RECURSIVE Trimmed(_)
Trimmed(str) ==
  IF str # <<>> /\ str[Len(str)] = Space
    THEN Trimmed(SubSeq(str, 1, Len(str) - 1))
    ELSE str

\* The demodulated frame was an Aircraft Identification message.
IdentReceived ==
  /\ mm # NoMessage
  /\ fx_frame[5] \div 8 >= 1
  /\ fx_frame[5] \div 8 <= 4

\* C21: after a DF17 identification message (ME type 1..4) was received,
\* the flight stored for the aircraft is the 8-character callsign of the
\* message without its trailing spaces.
C21_FlightStoredTrimmed ==
  IdentReceived =>
    CString(aircrafts[aircraft_find(aircrafts, AddressOf(mm))].flight)
      = Trimmed(CString(mm.flight))

\* A latitude in (-90, +90] and a longitude in (-180, +180].
InLatRange(x) == MoreDeg(x, -90) /\ ~MoreDeg(x, 90)
InLonRange(x) == MoreDeg(x, -180) /\ ~MoreDeg(x, 180)

\* C31: whenever decode_CPR sets the position of an aircraft, the stored
\* latitude lies in (-90, +90] and the stored longitude in (-180, +180],
\* whatever the raw odd and even CPR values are (a record without a position
\* holds 0, 0).
C31_PositionInRange ==
  \A i \in DOMAIN aircrafts :
    /\ InLatRange(aircrafts[i].position.lat)
    /\ InLonRange(aircrafts[i].position.lon)

\* The frame with the first bytes of body whose Address/Parity field is the
\* checksum of the frame overlaid with the address addr.
AddressedFrame(body, bits, addr) ==
  XorTrailingCRC(WithTrailingCRC(body, bits, addr), (bits \div 8) - 1,
                 modeS_checksum(body, bits))

\* A DF0, DF4 or DF20 reply of AC82EC with the two bytes ac that hold the
\* 13-bit altitude field.
Reply(DF, ac) ==
  AddressedFrame([i \in 1..MODES_LONG_MSG_BYTES |->
                    IF i = 1 THEN DF * 8 ELSE IF i = 3 THEN ac[1]
                    ELSE IF i = 4 THEN ac[2] ELSE 0],
                 modeS_message_len_by_type(DF), \hAC82EC)

\* Altitude fields: 1200 ft and 38000 ft (M = 0, Q = 1), the same bits as
\* 1200 ft with M = 1, and with M = 0 and Q = 0.
AC13Fields == { <<\h01, \h38>>, <<\h18, \h38>>, <<\h01, \h78>>, <<\h01, \h28>> }

ReplyFrames == {Reply(DF, ac) : DF \in {0, 4, 20}, ac \in AC13Fields}

\* detect_modeS with a demodulated all-call reply or altitude reply.
DetectReply(f) ==
  /\ messages_total < MaxReplies
  /\ fx_frame' = f
  /\ fx_msg' = f
  /\ Decoded(CheckAddress(DecodeFields(CheckCRC(f, aggressive))))
  /\ PassedOn(TrackerView(mm'))
  /\ UNCHANGED <<now, aggressive>>
  /\ UNCHANGED <<msec, last_update_ms, interactive, net, home_pos_ok,
                 connections, cli_accepted>>
  /\ UNCHANGED <<fx_flips, fx_rets, fx_written, stat>>
  /\ UNCHANGED <<rxVars, conVars, runVars, scanVars, inVars>>

ReceiveReply == \E f \in {DF11_AC82EC} \cup ReplyFrames : DetectReply(f)

\* The replies arrive while the time of the address cache passes.
NextAlt == ReceiveReply \/ ClockTick

\* The altitude field of the message cannot be decoded: M = 1, or M = 0
\* with Q = 0.
AC13Undecodable(msg) == AC13_m_bit(msg) = 1 \/ AC13_q_bit(msg) = 0

\* A DF0, DF4 or DF20 message with such a field is handed to the tracker,
\* which has a record of the aircraft.
UndecodableReceived ==
  /\ UserMessageStep
  /\ mm'.msg_type \in {0, 4, 20}
  /\ AC13Undecodable(mm'.msg)
  /\ HasAircraft(aircrafts, AddressOf(mm'))

\* C30: receiving a DF0, DF4 or DF20 message whose AC13 altitude cannot be
\* decoded (M = 1, or M = 0 with Q = 0) does not change the altitude that is
\* stored for the aircraft.
C30_UndecodableKeepsAltitude ==
  [][UndecodableReceived =>
       RecordOf(aircrafts', AddressOf(mm')).altitude
         = RecordOf(aircrafts, AddressOf(mm')).altitude]_vars

(***************************************************************************)
(* Part 7.  main(): start-up, the run and the exit code of the process.    *)
(***************************************************************************)

\* What the command line makes main() read from: --net-only, --strip,
\* --infile, an SDRplay device or an RTLSDR device.
Sources == {"net_only", "strip", "infile", "sdrplay", "rtlsdr"}

InitRun ==
  /\ run_pc = "parse"
  /\ source \in Sources
  /\ dev_opened = FALSE
  /\ net_opened = FALSE
  /\ ended_by = "none"
  /\ exit_code = -1

RunParked == InitRun /\ source = "rtlsdr"

trkRest == <<aircrafts, msec, last_update_ms, interactive, home_pos_ok,
             connections, cli_accepted, messages_total, sent>>

\* "goto quit;" for the given reason.
GotoQuit(why) ==
  /\ run_pc' = "quit"
  /\ ended_by' = why

\* The step went well; main() goes on at "to".
GoOn(to) ==
  /\ run_pc' = to
  /\ UNCHANGED ended_by

(* "if (!parse_cmd_line (argc, argv)) goto quit;".  An illegal value of an *)
(* option and -h end in show_help, which calls exit (0).                   *)
ParseCmdLine ==
  /\ run_pc = "parse"
  /\ \E outcome \in {"ok", "false", "illegal", "help"} :
       CASE outcome = "ok" ->
              /\ GoOn("init")
              /\ net' = (net \/ source = "net_only")
              /\ UNCHANGED exit_code
         [] outcome = "false" ->
              /\ GotoQuit("config")
              /\ UNCHANGED <<net, exit_code>>
         [] outcome = "illegal" ->
              /\ run_pc' = "exited"
              /\ ended_by' = "config"
              /\ exit_code' = 0
              /\ UNCHANGED net
         [] outcome = "help" ->
              /\ run_pc' = "exited"
              /\ ended_by' = "normal"
              /\ exit_code' = 0
              /\ UNCHANGED net
  /\ UNCHANGED <<source, dev_opened, net_opened>>
  /\ UNCHANGED <<rxVars, decVars, trkRest, conVars, fixVars, scanVars, inVars>>

(* "rc = modeS_init(); if (!rc) goto quit;" *)
ModesInit ==
  /\ run_pc = "init"
  /\ \E rc \in BOOLEAN : IF rc THEN GoOn("open") ELSE GotoQuit("config")
  /\ UNCHANGED <<source, dev_opened, net_opened, exit_code>>
  /\ UNCHANGED <<rxVars, decVars, trkVars, conVars, fixVars, scanVars, inVars>>

(* The if-chain of main() that opens the input: nothing for --net-only,    *)
(* strip_mode, _open of the --infile, sdrplay_init or modeS_init_RTLSDR.   *)
OpenSource ==
  /\ run_pc = "open"
  /\ \E rc \in BOOLEAN :
       CASE source \in {"net_only", "strip"} ->
              /\ GoOn("net")
              /\ UNCHANGED dev_opened
         [] source = "infile" ->
              /\ IF rc THEN GoOn("net") ELSE GotoQuit("config")
              /\ UNCHANGED dev_opened
         [] source = "sdrplay" ->
              /\ IF rc THEN GoOn("net") ELSE GotoQuit("device")
              /\ UNCHANGED dev_opened
         [] source = "rtlsdr" ->
              /\ IF rc THEN GoOn("net") ELSE GotoQuit("device")
              /\ dev_opened' = rc
  /\ UNCHANGED <<source, net_opened, exit_code>>
  /\ UNCHANGED <<rxVars, decVars, trkVars, conVars, fixVars, scanVars, inVars>>

(* "if (Modes.net) { rc = modeS_init_net(); if (!rc) goto quit;            *)
(* net_opened = true; }"                                                   *)
InitNet ==
  /\ run_pc = "net"
  /\ IF net
       THEN \E rc \in BOOLEAN :
              /\ IF rc THEN GoOn("run") ELSE GotoQuit("config")
              /\ net_opened' = rc
       ELSE /\ GoOn("run")
            /\ UNCHANGED net_opened
  /\ UNCHANGED <<source, dev_opened, exit_code>>
  /\ UNCHANGED <<rxVars, decVars, trkVars, conVars, fixVars, scanVars, inVars>>

(* The run: read_from_data_file for --infile, which returns at the end of  *)
(* the input; nothing for --strip; else _beginthreadex and main_data_loop. *)
BeginRun ==
  /\ run_pc = "run"
  /\ CASE source \in {"infile", "strip"} -> GotoQuit("normal")
        [] OTHER ->
             \E reader_thread \in BOOLEAN :
               IF reader_thread THEN GoOn("loop") ELSE GotoQuit("config")
  /\ UNCHANGED <<source, dev_opened, net_opened, exit_code>>
  /\ UNCHANGED <<rxVars, decVars, trkVars, conVars, fixVars, scanVars, inVars>>

(* main_data_loop returns: "while (!Modes.exit)". *)
LoopReturns ==
  /\ run_pc = "loop"
  /\ Modes_exit
  /\ GotoQuit("normal")
  /\ UNCHANGED <<source, dev_opened, net_opened, exit_code>>
  /\ UNCHANGED <<rxVars, decVars, trkVars, conVars, fixVars, scanVars, inVars>>

(* "quit: ... modeS_exit(); return (0);" *)
Quit ==
  /\ run_pc = "quit"
  /\ run_pc' = "exited"
  /\ exit_code' = 0
  /\ UNCHANGED <<source, dev_opened, net_opened, ended_by>>
  /\ UNCHANGED <<rxVars, decVars, trkVars, conVars, fixVars, scanVars, inVars>>

(* A signal while the process runs. *)
Signal == run_pc # "exited" /\ SignalHandler

NextRun ==
  \/ ParseCmdLine \/ ModesInit \/ OpenSource \/ InitNet \/ BeginRun
  \/ LoopReturns \/ Quit
  \/ Signal

\* The exit code the documentation gives for a run that ended for the
\* given reason.
DocumentedCode(why) ==
  CASE why = "normal" -> 0
    [] why = "config" -> 1
    [] why = "device" -> 2

\* C24: the exit code of the process is 0 on normal termination (signal or
\* end of input), 1 on a startup or configuration error and 2 on a device
\* error.
C24_ExitCodes == run_pc = "exited" => exit_code = DocumentedCode(ended_by)

(***************************************************************************)
(* Part 8.  The scan loop of detect_modeS over one magnitude buffer:       *)
(* preamble test, bit slicing, retry with phase correction, and the        *)
(* advance of the index.  Sample k of the C array m is element k + 1 of    *)
(* the sequence.                                                           *)
(***************************************************************************)

MODES_PREAMBLE_US == 8
MODES_FULL_LEN == MODES_PREAMBLE_US + MODES_LONG_MSG_BITS

\* mlen, and the exclusive limit of j: "j < mlen - 2*MODES_FULL_LEN".
ScanLen == ScanStarts + 2 * MODES_FULL_LEN
ScanEnd == ScanLen - 2 * MODES_FULL_LEN

At(m, k) == m[k + 1]

\* The element of a set of one element; used to hand a computed value on.
Only(S) == CHOOSE x \in S : TRUE

Abs(x) == IF x < 0 THEN -x ELSE x

\* The magnitude of a pulse; silence is 0.
Pulse == 10000

\* The samples of a frame of the given number of bits as it is transmitted:
\* the preamble with pulses at samples 0, 2, 7 and 9, then two samples per
\* bit, pulse first for a 1 and pulse second for a 0.
BurstSample(frame, k) ==
  IF k < 2 * MODES_PREAMBLE_US
    THEN IF k \in {0, 2, 7, 9} THEN Pulse ELSE 0
    ELSE LET i == k - 2 * MODES_PREAMBLE_US
         IN  IF BitSet(frame, i \div 2) = (i % 2 = 0) THEN Pulse ELSE 0

\* A buffer of silence with the burst of the frame beginning at sample off.
BufferWith(frame, bits, off) ==
  [k \in 1..ScanLen |->
     IF k - 1 >= off /\ k - 1 - off < 2 * (MODES_PREAMBLE_US + bits)
       THEN BurstSample(frame, k - 1 - off) ELSE 0]

\* The sample after the preamble raised, as part of a pulse that came late.
LatePulse(m, off) == [m EXCEPT ![off + 10 + 1] = Pulse \div 2]

\* Bit i of the burst at off received weakly and the wrong way round.
WeakBit(m, off, i) ==
  [m EXCEPT ![off + 2 * (MODES_PREAMBLE_US + i) + 1] = 4000,
            ![off + 2 * (MODES_PREAMBLE_US + i) + 2] = 4400]

\* Bit i of the burst at off received with two samples of one magnitude.
EqualBit(m, off, i) ==
  [m EXCEPT ![off + 2 * (MODES_PREAMBLE_US + i) + 1] = Pulse \div 2,
            ![off + 2 * (MODES_PREAMBLE_US + i) + 2] = Pulse \div 2]

\* The buffers that are scanned: a clean short frame, the same frame out of
\* phase with two weak bits, a short frame with two wrong bits, a clean
\* long frame, the short frame with equal samples in bit 4 and in bit 0, and
\* the short frame received faintly.
CleanBuffer   == BufferWith(DF11_A08C4A, MODES_SHORT_MSG_BITS, 1)
PhaseBuffer   == WeakBit(WeakBit(LatePulse(CleanBuffer, 1), 1, 4), 1, 5)
CorruptBuffer ==
  LatePulse(BufferWith(FlipBit(FlipBit(DF11_A08C4A, 8), 21),
                       MODES_SHORT_MSG_BITS, 1), 1)
LongBuffer    == BufferWith(DF17_Valid, MODES_LONG_MSG_BITS, 3)

EqualBuffer   == EqualBit(CleanBuffer, 1, 4)
FirstEqualBuffer == EqualBit(CleanBuffer, 1, 0)

\* The buffer received with every sample divided by d.
Fainter(m, d) == [k \in DOMAIN m |-> m[k] \div d]

\* The clean short frame with pulses of a fifth and of an eighth of Pulse.
QuietBuffer   == Fainter(CleanBuffer, 5)
FaintBuffer   == Fainter(CleanBuffer, 8)

ScanBuffers ==
  {CleanBuffer, PhaseBuffer, CorruptBuffer, LongBuffer, EqualBuffer,
   FirstEqualBuffer, QuietBuffer, FaintBuffer}

\* "high = (m[j] + m[j+2] + m[j+7] + m[j+9]) / 6;"
PreambleHigh(m, j) == (At(m, j) + At(m, j + 2) + At(m, j + 7) + At(m, j + 9)) \div 6

\* The three tests of the preamble at index j; a failed one is "continue".
GoodPreamble(m, j) ==
  /\ At(m, j) > At(m, j + 1)
  /\ At(m, j + 1) < At(m, j + 2)
  /\ At(m, j + 2) > At(m, j + 3)
  /\ At(m, j + 3) < At(m, j)
  /\ At(m, j + 4) < At(m, j)
  /\ At(m, j + 5) < At(m, j)
  /\ At(m, j + 6) < At(m, j)
  /\ At(m, j + 7) > At(m, j + 8)
  /\ At(m, j + 8) < At(m, j + 9)
  /\ At(m, j + 9) > At(m, j + 6)
  /\ At(m, j + 4) < PreambleHigh(m, j)
  /\ At(m, j + 5) < PreambleHigh(m, j)
  /\ \A k \in 11..14 : At(m, j + k) < PreambleHigh(m, j)

\* detect_out_of_phase (m + j)
detect_out_of_phase(m, j) ==
  IF At(m, j + 3) > At(m, j + 2) \div 3 THEN 1
  ELSE IF At(m, j + 10) > At(m, j + 9) \div 3 THEN 1
  ELSE IF At(m, j + 6) > At(m, j + 7) \div 3 THEN -1
  ELSE IF At(m, j + -1) > At(m, j + 1) \div 3 THEN -1
  ELSE 0

\* apply_phase_correction: the body of its loop for bit i (j = 2 * i in the
\* source) on the samples from b; the result is stored in a uint16_t.
PhaseBit(m, b, i) ==
  [m EXCEPT ![b + 2 * i + 2 + 1] =
     IF At(m, b + 2 * i) > At(m, b + 2 * i + 1)
       THEN ((@ * 5) \div 4) % 65536
       ELSE ((@ * 4) \div 5) % 65536]

\* The iterations for the bits lo..hi, in their order.
RECURSIVE PhaseBits(_, _, _, _)
PhaseBits(m, b, lo, hi) ==
  IF lo = hi THEN PhaseBit(m, b, lo)
  ELSE Only({PhaseBits(half, b, (lo + hi) \div 2 + 1, hi) :
               half \in {PhaseBits(m, b, lo, (lo + hi) \div 2)}})

\* "m += 16;" and "for (j = 0; j < 2*(MODES_LONG_MSG_BITS-1); j += 2)"
apply_phase_correction(m, j) ==
  PhaseBits(m, j + 16, 0, MODES_LONG_MSG_BITS - 2)

\* "if (j && detect_out_of_phase(m + j)) apply_phase_correction (m + j);"
\* on the retry.
Corrected(m, j, uc) ==
  IF uc /\ j # 0 /\ detect_out_of_phase(m, j) # 0
    THEN apply_phase_correction(m, j) ELSE m

\* The two samples of bit k of the message at index j.
LowOf(m, j, k)  == At(m, j + 2 * k + 2 * MODES_PREAMBLE_US)
HighOf(m, j, k) == At(m, j + 2 * k + 2 * MODES_PREAMBLE_US + 1)

\* The bit takes the value of the bit before it.
Repeats(m, j, k) == k > 0 /\ Abs(LowOf(m, j, k) - HighOf(m, j, k)) < 256

\* The slicing loop for bit k: bits[k] is appended as element k + 1.
SliceBit(m, j, k, bits) ==
  Append(bits,
    IF Repeats(m, j, k) THEN bits[k]
    ELSE IF LowOf(m, j, k) = HighOf(m, j, k) THEN 2
    ELSE IF LowOf(m, j, k) > HighOf(m, j, k) THEN 1
    ELSE 0)

\* The iterations for the bits lo..hi, in their order.
RECURSIVE SliceBits(_, _, _, _, _)
SliceBits(m, j, lo, hi, bits) ==
  IF lo = hi THEN SliceBit(m, j, lo, bits)
  ELSE Only({SliceBits(m, j, (lo + hi) \div 2 + 1, hi, half) :
               half \in {SliceBits(m, j, lo, (lo + hi) \div 2, bits)}})

\* bits[0 .. 111] after the slicing loop.
Slice(m, j) == SliceBits(m, j, 0, MODES_LONG_MSG_BITS - 1, <<>>)

\* "errors" after the slicing loop.
SliceErrors(m, j) ==
  Cardinality({k \in 0..(MODES_SHORT_MSG_BITS - 1) :
                 ~Repeats(m, j, k) /\ LowOf(m, j, k) = HighOf(m, j, k)})

\* Bit p of "bits[i] << 7 | ... | bits[i+7]" stored in a uint8_t, where
\* an element of bits is 0, 1 or 2.
PackedBit(bits, i, p) ==
  \/ bits[i + (7 - p) + 1] = 1
  \/ p > 0 /\ bits[i + (7 - (p - 1)) + 1] = 2

PackedByte(bits, i) ==
  LET Weight(p) == IF PackedBit(bits, i, p) THEN Pow2(p) ELSE 0
  IN  Weight(7) + Weight(6) + Weight(5) + Weight(4)
        + Weight(3) + Weight(2) + Weight(1) + Weight(0)

\* "Pack bits into bytes"
Pack(bits) == [b \in 1..MODES_LONG_MSG_BYTES |-> PackedByte(bits, 8 * (b - 1))]

\* The sum of the loop of the last check over the bits lo..hi.
RECURSIVE DeltaSum(_, _, _, _)
DeltaSum(m, j, lo, hi) ==
  IF lo = hi THEN Abs(LowOf(m, j, lo) - HighOf(m, j, lo))
  ELSE DeltaSum(m, j, lo, (lo + hi) \div 2)
         + DeltaSum(m, j, (lo + hi) \div 2 + 1, hi)

\* A delta that is the mean over the 8 * msg_len bits of the message.
AverageDelta_Mean(m, j, msg_len) ==
  DeltaSum(m, j, 0, 8 * msg_len - 1) \div (8 * msg_len)

\* "delta /= 4 * msg_len;"
AverageDelta(m, j, msg_len) ==
  DeltaSum(m, j, 0, 8 * msg_len - 1) \div (4 * msg_len)

\* A restore that copies the saved samples to the preamble instead of to
\* the message.
Restored_Preamble(m0, mc, j, uc) ==
  IF uc
    THEN [k \in 1..Len(mc) |->
            IF k - 1 >= j /\ k - 1 < j + 2 * MODES_PREAMBLE_US
              THEN m0[k] ELSE mc[k]]
    ELSE mc

\* "memcpy (aux, m + j + MODES_PREAMBLE_US*2, sizeof(aux));" before the
\* correction and "memcpy (m + j + 2*MODES_PREAMBLE_US, aux, sizeof(aux));"
\* after the slicing: m0 is the buffer before, mc the one that was sliced.
Restored(m0, mc, j, uc) ==
  IF uc
    THEN [k \in 1..Len(mc) |->
            IF /\ k - 1 >= j + 2 * MODES_PREAMBLE_US
               /\ k - 1 < j + 2 * MODES_PREAMBLE_US + 2 * MODES_LONG_MSG_BITS
              THEN m0[k] ELSE mc[k]]
    ELSE mc

\* One attempt at index j: the buffer it leaves, the message and the
\* values the rest of the loop body tests.
Measured(mr, msg, errors, j) ==
  [m |-> mr, msg |-> msg, errors |-> errors,
   msg_len |-> modeS_message_len_by_type(msg[1] \div 8) \div 8,
   delta |-> AverageDelta(mr, j, modeS_message_len_by_type(msg[1] \div 8) \div 8)]

Sliced(m0, mc, j, uc) ==
  Only({Measured(mr, msg, SliceErrors(mc, j), j) :
          mr \in {Restored(m0, mc, j, uc)}, msg \in {Pack(Slice(mc, j))}})

Attempt(m, j, uc) ==
  Only({Sliced(m, mc, j, uc) : mc \in {Corrected(m, j, uc)}})

\* An index that is taken back after every attempt that gave no message, the
\* retry included.
NextIndex_RetryAgain(j, uc, good_message, msg_len) ==
  IF good_message
    THEN [j |-> j + 2 * (MODES_PREAMBLE_US + 8 * msg_len) + 1, uc |-> FALSE]
    ELSE [j |-> j - 1 + 1, uc |-> ~uc]

\* An advance over a message that leaves out the j++ of the loop.
NextIndex_NoIncrement(j, uc, good_message, msg_len) ==
  IF good_message
    THEN [j |-> j + 2 * (MODES_PREAMBLE_US + 8 * msg_len), uc |-> FALSE]
    ELSE IF ~uc THEN [j |-> j - 1 + 1, uc |-> TRUE]
    ELSE [j |-> j + 1, uc |-> FALSE]

\* The end of the loop body and the j++ of the loop: "j += 2 *
\* (MODES_PREAMBLE_US + (8 * msg_len))" after a message with a good CRC,
\* "j--; use_correction = true;" after a first attempt without one (at
\* j = 0 the uint32_t wraps and the j++ brings it back to 0).
NextIndex(j, uc, good_message, msg_len) ==
  IF good_message
    THEN [j |-> j + 2 * (MODES_PREAMBLE_US + 8 * msg_len) + 1, uc |-> FALSE]
    ELSE IF ~uc THEN [j |-> j - 1 + 1, uc |-> TRUE]
    ELSE [j |-> j + 1, uc |-> FALSE]

Continue(n) ==
  /\ scan_j' = n.j
  /\ use_correction' = n.uc

\* Nothing is handed to decode_modeS_message in this iteration.
NotDecoded ==
  UNCHANGED <<decVars, stat, messages_total, aircrafts, sent>>

\* "rc += decode_modeS_message (&mm, msg);", the statistics, "if
\* (mm.CRC_ok) modeS_user_message (&mm);" and the end of the body.
DecodedAt(a, r) ==
  /\ Decoded(r)
  /\ stat' = IF a.errors = 0
               THEN UpdateStat(stat, r.mm, use_correction)
               ELSE [UpdateStat(stat, r.mm, use_correction)
                       EXCEPT !.demodulated = stat.demodulated]
  /\ PassedOn(TrackerView(r.mm))
  /\ UNCHANGED <<now, aggressive>>
  /\ Continue(NextIndex(scan_j, use_correction, r.mm.CRC_ok, a.msg_len))

\* The loop body from "good_preamble:" on, with the attempt a.
Demodulated(a) ==
  /\ magnitude' = a.m
  /\ IF a.delta < 10 * 255
       THEN /\ Continue([j |-> scan_j + 1, uc |-> FALSE])
            /\ NotDecoded
       ELSE IF a.errors = 0 \/ (aggressive /\ a.errors <= 2)
         THEN \E r \in {CheckAddress(DecodeFields(CheckCRC(a.msg, aggressive)))} :
                DecodedAt(a, r)
         ELSE /\ Continue(NextIndex(scan_j, use_correction, FALSE, a.msg_len))
              /\ NotDecoded

(* One iteration of "for (j = 0; j < mlen - 2*MODES_FULL_LEN; j++)" with   *)
(* "if (Modes.exit) break;".                                               *)
ScanStep ==
  /\ scan_j < ScanEnd
  /\ ~Modes_exit
  /\ IF ~use_correction /\ ~GoodPreamble(magnitude, scan_j)
       THEN /\ Continue([j |-> scan_j + 1, uc |-> FALSE])
            /\ NotDecoded
            /\ UNCHANGED magnitude
       ELSE \E a \in {Attempt(magnitude, scan_j, use_correction)} :
              Demodulated(a)
  /\ UNCHANGED <<data, data_ready, data_mutex, Modes_exit, max_messages,
                 rx_pc, batches, main_pc, mag_i, scans, demodulated>>
  /\ UNCHANGED <<msec, last_update_ms, interactive, net, home_pos_ok,
                 connections, cli_accepted>>
  /\ UNCHANGED <<fx_frame, fx_flips, fx_msg, fx_rets, fx_written>>
  /\ UNCHANGED <<conVars, runVars, inVars>>

InitScan ==
  /\ data = [i \in 1..data_len |-> Pad]
  /\ data_ready = FALSE
  /\ data_mutex = "main"
  /\ Modes_exit = FALSE
  /\ max_messages = 0
  /\ rx_pc = "idle"
  /\ batches = 0
  /\ main_pc = "detect"
  /\ magnitude \in ScanBuffers
  /\ mag_i = 0
  /\ scan_j = 0
  /\ scans = [s \in 0..(StreamLen - 1) |-> 0]
  /\ demodulated = {}
  /\ use_correction = FALSE

ScanParked == use_correction = FALSE

NextScan == ScanStep \/ SignalHandler

\* The scan loop has ended.
ScanDone == scan_j >= ScanEnd \/ Modes_exit

\* An iteration of the scan loop was executed.
Scanned == <<scan_j, use_correction>>' # <<scan_j, use_correction>>

\* C27: for each start index j detect_modeS attempts the demodulation at
\* most twice, once plain and at most once with phase correction, hands at
\* most one message to modeS_user_message, and then goes on at a strictly
\* larger index, so that the scan terminates.
C27_TwoAttemptsThenAdvance ==
  /\ [][Scanned =>
          /\ messages_total' <= messages_total + 1
          /\ IF use_correction
               THEN scan_j' > scan_j
               ELSE \/ scan_j' > scan_j
                    \/ /\ scan_j' = scan_j
                       /\ use_correction'
                       /\ messages_total' = messages_total]_vars
  /\ <>ScanDone

\* The scan of the buffer with the frame that has two wrong bits has ended:
\* the frame was attempted twice and handed on by neither attempt.
C27_Witness ==
  /\ magnitude = CorruptBuffer
  /\ scan_j >= ScanEnd
  /\ stat.bad_CRC >= 1
  /\ messages_total = 0

\* C28: after each scan position of detect_modeS, one retried with phase
\* correction included, the magnitude buffer is what it was before: the
\* samples the phase correction altered are restored.
C28_BufferRestored == [][Scanned => magnitude' = magnitude]_vars

\* The frame that is out of phase was demodulated by the retry with phase
\* correction and handed on.
C28_Witness ==
  /\ magnitude = PhaseBuffer
  /\ messages_total = 1
  /\ SubSeq(mm.msg, 1, 7) = SubSeq(DF11_A08C4A, 1, 7)
  /\ stat.demodulated = 1

\* An iteration handed a message with a good CRC to modeS_user_message.
GoodMessage == messages_total' = messages_total + 1

\* C29: after a fully validated CRC-passing message of L bytes at index j
\* the scan index advances by 2 * (16 + 8 * L); after any other outcome it
\* advances by exactly 1.
C29_AdvanceBy32Plus16L ==
  [][Scanned =>
       IF GoodMessage
         THEN scan_j' = scan_j + 2 * (16 + 8 * (mm'.msg_bits \div 8))
         ELSE scan_j' = scan_j + 1]_vars

\* C29, amended: after such a message the scan goes on at
\* j + 2 * (8 + 8 * L) + 1, behind the 16 + 16 * L samples of the message;
\* after a first attempt that gave no message the index stays for the retry
\* with phase correction; after any other outcome it advances by exactly 1.
C29_AdvanceBehindMessage ==
  [][Scanned =>
       IF GoodMessage
         THEN scan_j' = scan_j + 2 * (MODES_PREAMBLE_US + 8 * (mm'.msg_bits \div 8)) + 1
         ELSE IF use_correction'
           THEN scan_j' = scan_j
           ELSE scan_j' = scan_j + 1]_vars

\* The clean short frame at index 1 was handed on and the scan is behind it.
C29_Witness ==
  /\ magnitude = CleanBuffer
  /\ messages_total = 1
  /\ scan_j = 1 + 2 * (MODES_PREAMBLE_US + MODES_SHORT_MSG_BITS) + 1

\* The bits among the first 56 of the frame at j whose two samples are
\* exactly equal, in the samples that the slicing loop reads.
EqualBits(m, j) ==
  {k \in 0..(MODES_SHORT_MSG_BITS - 1) : LowOf(m, j, k) = HighOf(m, j, k)}

\* The number of equal-sample bits that the operating mode lets through.
ErrorsAllowed == IF aggressive THEN 2 ELSE 0

\* C35: a bit whose two samples are exactly equal is flagged as an error,
\* and a frame with more such bits among its first 56 than the mode allows
\* (none, or two in aggressive mode) is never passed to the decoder: no
\* iteration counts a message as demodulated with a good CRC from samples
\* that hold more equal-sample bits than that.
C35_EqualSamplesRejected ==
  [][stat'.good_CRC # stat.good_CRC =>
       Cardinality(EqualBits(Corrected(magnitude, scan_j, use_correction),
                             scan_j)) <= ErrorsAllowed]_vars

\* The iteration is a first attempt at an index with a good preamble.
FirstAttempt ==
  scan_j < ScanEnd /\ ~use_correction /\ GoodPreamble(magnitude, scan_j)

\* A first attempt ended at the "continue" of the noise filter: the scan
\* goes on at the next index without a retry (an attempt that is sliced
\* with errors or decoded without a good CRC is retried at the same index,
\* and one with a good CRC goes on behind the message).
FilterRejected == scan_j' = scan_j + 1 /\ ~use_correction'

\* The sum of |lo - hi| over the bits of a message of msg_len bytes at the
\* index of the scan.
BodySum(msg_len) == DeltaSum(magnitude, scan_j, 0, 8 * msg_len - 1)

\* C36: a sliced frame is rejected by the noise filter exactly when the
\* mean of |lo - hi| over the bits of the message body is below
\* 10 * 255 = 2550.
C36_RejectedBelowMean ==
  [][(Scanned /\ FirstAttempt) =>
       \A a \in {Attempt(magnitude, scan_j, FALSE)} :
         FilterRejected <=> BodySum(a.msg_len) < (10 * 255) * (8 * a.msg_len)]_vars

\* C36, amended: a sliced frame of L bytes is rejected by the noise filter
\* exactly when the sum of |lo - hi| over its 8 * L bits, divided by 4 * L
\* with the remainder dropped (twice the mean), is below 2550.
C36_RejectedBelowTwiceMean ==
  [][(Scanned /\ FirstAttempt) =>
       \A a \in {Attempt(magnitude, scan_j, FALSE)} :
         FilterRejected <=> BodySum(a.msg_len) \div (4 * a.msg_len) < 10 * 255]_vars

\* The faint frame, whose bits differ by 1250 each, was sliced at index 1
\* and rejected by the noise filter: nothing was decoded and the scan went
\* on at index 2 without a retry.
C36_Witness ==
  /\ magnitude = FaintBuffer
  /\ scan_j = 2
  /\ ~use_correction
  /\ GoodPreamble(magnitude, 1)
  /\ DeltaSum(magnitude, 1, 0, MODES_SHORT_MSG_BITS - 1) \div (4 * 7) < 10 * 255
  /\ stat.bad_CRC = 0
  /\ messages_total = 0



(***************************************************************************)
(* Part 9.  read_from_data_file: the input from a file or from stdin.      *)
(*                                                                         *)
(* As in Part 1 a cell of Modes.data holds the position of its I/Q pair,   *)
(* here the offset of the pair in the file.  The list of aircraft is empty *)
(* and the refresh is not due, so background_tasks changes nothing.        *)
(***************************************************************************)

InitFile ==
  /\ file_pc = "entry"
  /\ file_len \in 1..MaxFileLen
  /\ file_pos = 0
  /\ loop_arg \in 0..MaxLoops
  /\ loops = loop_arg
  /\ is_stdin \in BOOLEAN
  /\ file_read = [k \in 0..(MaxFileLen - 1) |-> 0]

InitRaw ==
  /\ wire = <<>>
  /\ recv = <<>>
  /\ sent_log = <<>>
  /\ raw_log = <<>>
  /\ split = FALSE
  /\ raw_stat = [good_raw |-> 0, unrecognized_raw |-> 0, empty_raw |-> 0]

InParked == InitFile /\ file_len = 1 /\ loop_arg = 0 /\ ~is_stdin /\ InitRaw

rxIdle == <<data_ready, data_mutex, max_messages, rx_pc, batches, main_pc,
            mag_i, demodulated>>

rawVars == <<wire, recv, sent_log, raw_log, split, raw_stat>>

otherVars == <<decVars, trkVars, conVars, fixVars, runVars, scanVars>>

\* "if (Modes.loops > 0 && Modes.fd == STDIN_FILENO) Modes.loops = 0;"
FileEntry ==
  /\ file_pc = "entry"
  /\ loops' = IF loops > 0 /\ is_stdin THEN 0 ELSE loops
  /\ file_pc' = "fill"
  /\ UNCHANGED <<file_len, file_pos, loop_arg, is_stdin, file_read>>
  /\ UNCHANGED <<data, magnitude, scan_j, scans, Modes_exit>>
  /\ UNCHANGED <<rxIdle, rawVars, otherVars>>

\* The pairs the loop "while (toread) { nread = _read (...); ... }" gets:
\* MODES_DATA_LEN of them, or what is left of the file.
ReadCount == IF file_len - file_pos < MODES_DATA_LEN
               THEN file_len - file_pos ELSE MODES_DATA_LEN

\* Modes.data after the memcpy of the tail, the reads and "memset (data,
\* 127, toread);".
FileBuffer(d, pos, n) ==
  [i \in 1..data_len |->
     IF i <= TailLen THEN d[MODES_DATA_LEN + i]
     ELSE IF i - TailLen <= n THEN pos + (i - TailLen) - 1
     ELSE Pad]

CountRead(fr, pos, n) ==
  [k \in DOMAIN fr |-> IF k >= pos /\ k < pos + n THEN fr[k] + 1 ELSE fr[k]]

\* One buffer is filled and compute_magnitude_vector (Modes.data) is done.
FileFill ==
  /\ file_pc = "fill"
  /\ data' = FileBuffer(data, file_pos, ReadCount)
  /\ file_pos' = file_pos + ReadCount
  /\ file_read' = CountRead(file_read, file_pos, ReadCount)
  /\ magnitude' = data'
  /\ scan_j' = 0
  /\ file_pc' = "detect"
  /\ UNCHANGED <<file_len, loops, loop_arg, is_stdin, scans, Modes_exit>>
  /\ UNCHANGED <<rxIdle, rawVars, otherVars>>

\* detect_modeS (Modes.magnitude, Modes.data_len/2): one iteration of its
\* loop, with "if (Modes.exit) break;".
FileDetect ==
  /\ file_pc = "detect"
  /\ IF scan_j < ScanLimit /\ ~Modes_exit
       THEN /\ scans' = CountScan(scans, magnitude, scan_j)
            /\ scan_j' = scan_j + 1
            /\ file_pc' = "detect"
       ELSE /\ file_pc' = "next"
            /\ UNCHANGED <<scans, scan_j>>
  /\ UNCHANGED <<file_len, file_pos, loops, loop_arg, is_stdin, file_read>>
  /\ UNCHANGED <<data, magnitude, Modes_exit>>
  /\ UNCHANGED <<rxIdle, rawVars, otherVars>>

\* Modes.loops after "if (Modes.loops > 0) Modes.loops--;"
LoopsLeft == IF loops > 0 THEN loops - 1 ELSE loops

\* The end of the do-loop: "if (Modes.exit || Modes.fd == STDIN_FILENO)
\* break;", the countdown of Modes.loops and "if (Modes.loops == 0 ||
\* _lseek(Modes.fd, 0, SEEK_SET) == -1) break;" (the seek in a file that was
\* opened for reading succeeds).
FileNext ==
  /\ file_pc = "next"
  /\ IF Modes_exit \/ is_stdin
       THEN /\ file_pc' = "returned"
            /\ UNCHANGED <<loops, file_pos>>
       ELSE /\ loops' = LoopsLeft
            /\ IF LoopsLeft = 0
                 THEN /\ file_pc' = "returned"
                      /\ UNCHANGED file_pos
                 ELSE /\ file_pc' = "fill"
                      /\ file_pos' = 0
  /\ UNCHANGED <<file_len, loop_arg, is_stdin, file_read>>
  /\ UNCHANGED <<data, magnitude, scan_j, scans, Modes_exit>>
  /\ UNCHANGED <<rxIdle, rawVars, otherVars>>

FileSignal == file_pc # "returned" /\ SignalHandler

NextFile == FileEntry \/ FileFill \/ FileDetect \/ FileNext \/ FileSignal

\* The number of times the file is to be played.
Replays == IF is_stdin \/ loop_arg = 0 THEN 1 ELSE loop_arg

\* read_from_data_file returned and was not stopped by Modes.exit.
FileDone == file_pc = "returned" /\ ~Modes_exit

\* C32: when read_from_data_file returns at the end of the input, every
\* sample of the input file was read into a buffer that was demodulated:
\* once without --loop, N times with --loop N.
C32_WholeFileDemodulated ==
  FileDone => \A k \in 0..(file_len - 1) : file_read[k] = Replays

(***************************************************************************)
(* Part 10.  The raw input: connection_read and decode_hex_message on the   *)
(* receive buffer of a MODES_NET_SERVICE_RAW_IN connection.  Characters    *)
(* are their ASCII codes.                                                  *)
(***************************************************************************)

NUL  == 0
LF   == 10
CR   == 13
Star == 42
Semi == 59

\* The hexadecimal digit of the value v, in upper case.
HexChar(v) == IF v < 10 THEN 48 + v ELSE 55 + v

RECURSIVE HexText(_)
HexText(bytes) ==
  IF bytes = <<>> THEN <<>>
  ELSE <<HexChar(Head(bytes) \div 16), HexChar(Head(bytes) % 16)>>
         \o HexText(Tail(bytes))

\* The record "*<hex>;\n" of the message bytes.
RawText(bytes) == <<Star>> \o HexText(bytes) \o <<Semi, LF>>

\* The two bytes whose record is the heart-beat "*0000;".
HeartBeatBytes == <<0, 0>>

MODES_RAW_HEART_BEAT == <<Star, 48, 48, 48, 48, Semi>>

\* The messages the peer sends: two extended squitters of 4840D6 and the
\* heart-beat.
RawMessages ==
  {DF17_Valid, SquitterFrame(9, 0, 93000, 51372), HeartBeatBytes}

hex_digit_val(c) ==
  IF c >= 48 /\ c <= 57 THEN c - 48
  ELSE IF c >= 65 /\ c <= 70 THEN c - 65 + 10
  ELSE IF c >= 97 /\ c <= 102 THEN c - 97 + 10
  ELSE -1

isspace(c) == c \in {9, 10, 11, 12, 13, Space}

\* memchr (msg->buf, '\n', msg->len): the index of the first newline, 0 for
\* none.
FirstLF(buf) ==
  IF \E i \in DOMAIN buf : buf[i] = LF
    THEN CHOOSE i \in DOMAIN buf : buf[i] = LF /\ \A k \in 1..(i - 1) : buf[k] # LF
    ELSE 0

\* The record in the buffer after "*end++ = '\0'; if (end[-2] == '\r')
\* end[-2] = '\0';", e being the index of the newline.  For e = 1 the byte
\* end[-2] lies before the buffer; what it holds changes nothing here.
Terminated(buf, e) ==
  [i \in 1..e |->
     IF i = e \/ (i = e - 1 /\ buf[i] = CR) THEN NUL ELSE buf[i]]

\* "while (len && isspace(hex[len-1])) { hex[len-1] = '\0'; len--; }"
RECURSIVE TrimRight(_, _)
TrimRight(line, len) ==
  IF len > 0 /\ isspace(line[len])
    THEN TrimRight([line EXCEPT ![len] = NUL], len - 1)
    ELSE [line |-> line, len |-> len]

\* "while (isspace(*hex)) { hex++; len--; }": the number of steps from the
\* offset k on.
RECURSIVE LeadSpaces(_, _)
LeadSpaces(line, k) ==
  IF isspace(line[k + 1]) THEN 1 + LeadSpaces(line, k + 1) ELSE 0

\* The result of decode_hex_message: what it did with the record, the
\* buffer it leaves and the bytes of bin_msg it wrote.
HexResult(kind, rest, bytes) == [kind |-> kind, rest |-> rest, bytes |-> bytes]

\* mg_iobuf_del (msg, 0, end - msg->buf), e being the index of the newline
AfterRecord(buf, e) == SubSeq(buf, e + 1, Len(buf))

\* bin_msg[j/2] = (high << 4) | low, for the digits from the offset s on
HexBytes(line, s, len) ==
  [k \in 1..((len + 1) \div 2) |->
     16 * hex_digit_val(line[s + 2 * k - 1]) + hex_digit_val(line[s + 2 * k])]

BadDigit(line, s, len) ==
  \E k \in 1..((len + 1) \div 2) :
    \/ hex_digit_val(line[s + 2 * k - 1]) = -1
    \/ hex_digit_val(line[s + 2 * k]) = -1

\* From "hex++; len -= 2;" on: hex is at the offset s, len is what is left.
HexToBinary(buf, e, line, s, len) ==
  IF len > 2 * MODES_LONG_MSG_BYTES \/ BadDigit(line, s, len)
    THEN HexResult("unrecognized", AfterRecord(buf, e), <<>>)
    ELSE HexResult("good", AfterRecord(buf, e), HexBytes(line, s, len))

\* From "Check it's format." on: hex is at the offset s, len its length.
CheckFormat(buf, e, line, s, len) ==
  IF len < 2 THEN HexResult("empty", AfterRecord(buf, e), <<>>)
  ELSE IF line[s + 1] # Star \/ ~\E i \in 1..len : line[i] = Semi
    THEN HexResult("unrecognized", AfterRecord(buf, e), <<>>)
  ELSE HexToBinary(buf, e, line, s + 1, len - 2)

Trimmed_Left(buf, e, t) ==
  CheckFormat(buf, e, t.line, LeadSpaces(t.line, 0),
              t.len - LeadSpaces(t.line, 0))

\* "if (!strcmp(hex, MODES_RAW_HEART_BEAT)) { mg_iobuf_del (msg, 0,
\* msg->len); return (true); }"
HeartBeat(buf, e) == HexResult("heartbeat", <<>>, <<>>)

\* From the newline at the index e on.
DecodeLine(buf, e, line) ==
  IF CString(line) = MODES_RAW_HEART_BEAT THEN HeartBeat(buf, e)
  ELSE Trimmed_Left(buf, e, TrimRight(line, e - 1))

\* "if (!end) { Modes.stat.unrecognized_raw++; mg_iobuf_del (msg, 0,
\* msg->len); return (false); }"
NoNewline(buf) == HexResult("unrecognized", <<>>, <<>>)

decode_hex_message(buf) ==
  IF FirstLF(buf) = 0 THEN NoNewline(buf)
  ELSE DecodeLine(buf, FirstLF(buf), Terminated(buf, FirstLF(buf)))

\* Modes.stat after the call.
RawCounted(st, kind) ==
  IF kind = "good" THEN [st EXCEPT !.good_raw = @ + 1]
  ELSE IF kind = "unrecognized" THEN [st EXCEPT !.unrecognized_raw = @ + 1]
  ELSE IF kind = "empty" THEN [st EXCEPT !.empty_raw = @ + 1]
  ELSE st

\* bin_msg as decode_modeS_message reads it: the bytes that were written
\* and, behind them, what the stack held.
BinMsg(bytes, fill) ==
  [i \in 1..MODES_LONG_MSG_BYTES |-> IF i <= Len(bytes) THEN bytes[i] ELSE fill]

\* "decode_modeS_message (&mm, bin_msg); if (mm.CRC_ok) modeS_user_message
\* (&mm);"
RawDecoded(bin) ==
  /\ raw_log' = Append(raw_log, bin)
  /\ Decoded(CheckAddress(DecodeFields(CheckCRC(bin, aggressive))))
  /\ PassedOn(TrackerView(mm'))

\* One iteration of "for (loops = 0; msg->len > 0; loops++) (*handler)
\* (msg, loops);" in connection_read, with the result r of the handler.
Handled(r) ==
  /\ recv' = r.rest
  /\ raw_stat' = RawCounted(raw_stat, r.kind)
  /\ IF r.kind = "good"
       THEN \E fill \in {0, 255} : RawDecoded(BinMsg(r.bytes, fill))
       ELSE UNCHANGED <<raw_log, ICAO_cache, mm, added_at, live,
                        messages_total, aircrafts, sent>>

HandlerStep ==
  /\ recv # <<>>
  /\ \E r \in {decode_hex_message(recv)} : Handled(r)
  /\ UNCHANGED <<now, aggressive>>
  /\ UNCHANGED <<msec, last_update_ms, interactive, net, home_pos_ok,
                 connections, cli_accepted>>
  /\ UNCHANGED <<wire, sent_log, split>>
  /\ UNCHANGED <<file_pc, file_len, file_pos, loops, loop_arg, is_stdin,
                 file_read>>
  /\ UNCHANGED <<rxVars, conVars, fixVars, runVars, scanVars>>

\* MG_EV_READ: the first n bytes in flight are in the receive buffer when
\* connection_handler calls connection_read.  The loop of connection_read
\* has emptied the buffer before the next event.
ReadEvent(n) ==
  /\ recv = <<>>
  /\ n >= 1 /\ n <= Len(wire)
  /\ recv' = SubSeq(wire, 1, n)
  /\ wire' = SubSeq(wire, n + 1, Len(wire))
  /\ split' = (split \/ wire[n] # LF)
  /\ UNCHANGED <<sent_log, raw_log, raw_stat>>
  /\ UNCHANGED <<file_pc, file_len, file_pos, loops, loop_arg, is_stdin,
                 file_read>>
  /\ UNCHANGED <<rxVars, decVars, trkVars, conVars, fixVars, runVars, scanVars>>

\* The network hands over all that is in flight, or the first SplitAt bytes.
Receive == \E n \in {SplitAt, Len(wire)} : ReadEvent(n)

\* The peer writes the record of the message bytes.
PeerSend(bytes) ==
  /\ Len(sent_log) < MaxRecords
  /\ wire' = wire \o RawText(bytes)
  /\ sent_log' = Append(sent_log, bytes)
  /\ UNCHANGED <<recv, raw_log, split, raw_stat>>
  /\ UNCHANGED <<file_pc, file_len, file_pos, loops, loop_arg, is_stdin,
                 file_read>>
  /\ UNCHANGED <<rxVars, decVars, trkVars, conVars, fixVars, runVars, scanVars>>

PeerSends == \E bytes \in RawMessages : PeerSend(bytes)

NextRaw == PeerSends \/ Receive \/ HandlerStep

\* All that the peer wrote was received and handled.
AllHandled == wire = <<>> /\ recv = <<>>

\* The messages of the records the peer wrote, without the heart-beats.
SentMessages ==
  [i \in DOMAIN SelectSeq(sent_log, LAMBDA b : b # HeartBeatBytes) |->
     BinMsg(SelectSeq(sent_log, LAMBDA b : b # HeartBeatBytes)[i], 0)]

NoHeartBeat == \A i \in DOMAIN sent_log : sent_log[i] # HeartBeatBytes

\* C33: a record that arrives split across two reads is kept until the rest
\* arrives and is then decoded exactly once: without heart-beats, every
\* record the peer wrote was handed to the decoder once, in its order,
\* however the reads cut the stream.
C33_SplitRecordKept ==
  (AllHandled /\ NoHeartBeat) => raw_log = SentMessages

\* C34: a heart-beat consumes only itself: when every read ended with a
\* complete record, all records that are no heart-beat were handed to the
\* decoder, those behind a heart-beat in the same buffer included.
C34_HeartBeatConsumesItself ==
  (AllHandled /\ ~split) => raw_log = SentMessages

(***************************************************************************)
(* The specifications.  Each one runs one part of the program and leaves   *)
(* the other parts in their state after start-up.                          *)
(***************************************************************************)

RxParked  == InitRx /\ max_messages = 0
DecParked == InitDec /\ aggressive = FALSE
TrkParked == InitTrack /\ interactive = FALSE /\ net = FALSE /\ home_pos_ok = FALSE

StartRx    == InitRx /\ DecParked /\ TrkParked /\ ConParked /\ FixParked /\ RunParked /\ InParked /\ ScanParked
StartDec   == RxParked /\ InitDec /\ TrkParked /\ ConParked /\ FixParked /\ RunParked /\ InParked /\ ScanParked
StartTrack ==
  /\ RxParked /\ DecParked /\ ConParked /\ FixParked /\ RunParked /\ InParked /\ ScanParked
  /\ InitTrack /\ interactive /\ ~net /\ home_pos_ok
StartNet   ==
  /\ RxParked /\ DecParked /\ ConParked /\ FixParked /\ RunParked /\ InParked /\ ScanParked
  /\ InitTrack /\ net /\ ~home_pos_ok
StartCon   ==
  /\ RxParked /\ DecParked /\ FixParked /\ RunParked /\ InParked /\ ScanParked
  /\ InitTrack /\ ~interactive /\ net /\ ~home_pos_ok
  /\ InitCon
StartFix   == RxParked /\ DecParked /\ TrkParked /\ ConParked /\ InitFix /\ RunParked /\ InParked /\ ScanParked
StartDet   == RxParked /\ InitDec /\ TrkParked /\ ConParked /\ InitDet /\ RunParked /\ InParked /\ ScanParked
StartPos   ==
  /\ RxParked /\ DecParked /\ ConParked /\ FixParked /\ RunParked /\ InParked /\ ScanParked
  /\ InitTrack /\ interactive /\ ~net /\ ~home_pos_ok

StartType  == RxParked /\ DecParked /\ TrkParked /\ ConParked /\ InitType /\ RunParked /\ InParked /\ ScanParked
StartRun   ==
  /\ RxParked /\ DecParked /\ ConParked /\ FixParked
  /\ InitTrack /\ ~interactive /\ ~home_pos_ok
  /\ InitRun /\ ScanParked /\ InParked
StartFile  ==
  /\ RxParked /\ DecParked /\ TrkParked /\ ConParked /\ FixParked /\ RunParked
  /\ ScanParked /\ InitFile /\ InitRaw
StartRaw   ==
  /\ RxParked /\ DecParked /\ ConParked /\ FixParked /\ RunParked /\ ScanParked
  /\ InitTrack /\ interactive /\ net /\ ~home_pos_ok
  /\ InitFile /\ file_len = 1 /\ loop_arg = 0 /\ ~is_stdin /\ InitRaw
StartScan  == InitScan /\ DecParked /\ TrkParked /\ ConParked /\ FixParked /\ RunParked /\ InParked

SpecRx    == StartRx /\ [][NextRx]_vars
SpecDec   == StartDec /\ [][NextDec]_vars
SpecTrack == StartTrack /\ [][NextTrack]_vars
SpecNet   == StartNet /\ [][NextNet]_vars
SpecCon   == StartCon /\ [][NextCon]_vars
SpecFix   == StartFix /\ [][NextFix]_vars
SpecDet   == StartDet /\ [][NextDet]_vars
SpecPos   == StartPos /\ [][NextPos]_vars
SpecAlt   == StartPos /\ [][NextAlt]_vars
SpecType  == StartType /\ [][NextType]_vars
SpecRun   == StartRun /\ [][NextRun]_vars
SpecScan  == StartScan /\ [][NextScan]_vars
SpecFile  == StartFile /\ [][NextFile]_vars
SpecRaw   == StartRaw /\ [][NextRaw]_vars

\* Both threads are scheduled: a thread that can take its next step, and
\* stays able to, takes it.  Nothing makes the device deliver a batch or a
\* signal arrive.
FairRx == SpecRx /\ WF_vars(MainStep) /\ WF_vars(RxStep)

\* The main thread, which runs the scan loop, is scheduled: weak fairness of
\* ScanStep, WF_vars(ScanStep), written out with the guard of ScanStep
\* (~ScanDone) in the place of ENABLED <<ScanStep>>_vars; a step of the loop
\* always changes the index or the retry flag.
FairScan == SpecScan /\ ([]<>ScanDone \/ []<><<ScanStep>>_vars)

=============================================================================
